---- MODULE Spec2Model ----
(***************************************************************************)
(* Model of the request-security layer of the b0x.nz link shortener        *)
(* (functions/_security.js) and of the handlers that call it               *)
(* (functions/api/admin.js, functions/api/lookup.js).                      *)
(*                                                                         *)
(* A JavaScript string is a sequence of UTF-16 code units.  A code unit is *)
(* written as a one-character TLA+ string; the few non-ASCII units the     *)
(* model uses have mnemonic names ("ZWSP" is U+200B, "NUL" is U+0000,      *)
(* "FWA" is U+FF21 FULLWIDTH LATIN CAPITAL LETTER A, "LIGFI" is U+FB01     *)
(* LATIN SMALL LIGATURE FI, "EACUTE" is U+00E9).                           *)
(***************************************************************************)
EXTENDS Integers, Sequences, FiniteSets, TLC

VARIABLES
  hostname,   \* SpecHost: the argument of isBlockedHostname
  hostAddr,   \* SpecHost: the address the literal denotes (ghost, for the claims)
  hostPc,     \* SpecHost: "call" before isBlockedHostname runs, "done" after
  verdict,    \* SpecHost: what isBlockedHostname returned
  raw,        \* SpecUrl: the argument of validateUrl, [isString, s]
  urlParts,   \* SpecUrl: the pieces raw.s was written from (ghost, for the claims)
  urlPc,      \* SpecUrl: "call", "done" (validated), "redone" (output validated again)
  result,     \* SpecUrl: validateUrl(raw)
  result2,    \* SpecUrl: validateUrl(result.url), when result.ok
  adminKey,   \* env.ADMIN_KEY: [set, s]
  authHeader, \* the request's Authorization header: [present, s]
  authParts,  \* the scheme word and the token the header was written from (ghost)
  authPc,     \* checkAdminAuth: "call", "unequal" / "equal" (the two loops), "ret"
  cmpArgs,    \* the arguments (a, b) of the timingSafeEqual call, <<>> before it
  ab,         \* timingSafeEqual: enc.encode(a)
  bb,         \* timingSafeEqual: enc.encode(b)
  idx,        \* timingSafeEqual: the loop variable i
  diff,       \* timingSafeEqual: the accumulated difference
  cmpStats,   \* [calls, iters, outOfBounds]: comparator calls, loop iterations and
              \* whether a read of bb was outside 0..bb.length-1 (ghost)
  authResult, \* what checkAdminAuth returned
  route,      \* the handler serving the request: "lookup", "admin_get", "admin_delete"
  req,        \* the request: Content-Type, Content-Length, body stream, parsed body
  kv,         \* env.LINKS: slug -> stored record
  kv2,        \* a second store that differs from kv only in ip and userAgent
  kv0,        \* env.LINKS when the request arrived (ghost)
  apiPc,      \* the handler's position
  loc,        \* the handler's local variables (of the run on kv and of the run on kv2)
  trace,      \* [kvLog, bodyCalls]: the KV calls issued and the body reads (ghost)
  resp,       \* the response of the run on kv
  resp2,      \* the response of the run on kv2
  bodyReq,    \* readJsonBody: the request (headers, body stream, what the bytes hold)
  bodyPc,     \* readJsonBody: "call", "read" (the loop), "decode", "done"
  bodyRd,     \* readJsonBody: the reader, total and chunks, with the reads issued and
              \* the bytes taken from the stream (ghost)
  bodyRet,    \* what readJsonBody returned
  slugSrc,    \* where a slug comes from: the customSlug typed, or the random bytes
  slugPc,     \* "call", "assigned", "looked", "visited"
  slugKey,    \* the result of validateCustomSlug, or the generated code
  slugLookup, \* the result of validateLookupSlug
  rdSlug,     \* the redirect handler: params.slug
  rdPc,       \* the redirect handler: "call", "get" (awaiting env.LINKS.get), "done"
  rdResp,     \* the redirect handler: what it did (context.next(), or a response)
  shReq,      \* POST /api/shorten, per request: the request
  shPc,       \* per request: "start", "custom_get", "gen_get", "put", "done"
  shLoc,      \* per request: normalisedUrl, slug, the loop of generateUniqueSlug
  shResp,     \* per request: the response
  shLog       \* per request: the KV calls issued (ghost)

hostVars == <<hostname, hostAddr, hostPc, verdict>>

urlVars == <<raw, urlParts, urlPc, result, result2>>

authVars ==
  <<adminKey, authHeader, authParts, authPc, cmpArgs, ab, bb, idx, diff, cmpStats,
    authResult>>

apiVars == <<route, req, kv, kv2, kv0, apiPc, loc, trace, resp, resp2>>

bodyVars == <<bodyReq, bodyPc, bodyRd, bodyRet>>

slugVars == <<slugSrc, slugPc, slugKey, slugLookup, rdSlug, rdPc, rdResp>>

shVars == <<shReq, shPc, shLoc, shResp, shLog>>

handlerVars == <<route, req, kv0, apiPc, loc, trace, resp, resp2>>

vars ==
  <<hostname, hostAddr, hostPc, verdict, raw, urlParts, urlPc, result, result2,
    adminKey, authHeader, authParts, authPc, cmpArgs, ab, bb, idx, diff, cmpStats,
    authResult, route, req, kv, kv2, kv0, apiPc, loc, trace, resp, resp2,
    bodyReq, bodyPc, bodyRd, bodyRet, slugSrc, slugPc, slugKey, slugLookup,
    rdSlug, rdPc, rdResp, shReq, shPc, shLoc, shResp, shLog>>

\* ------------------------------------------------------------------------
\* Strings
\* ------------------------------------------------------------------------

Digits == {"0", "1", "2", "3", "4", "5", "6", "7", "8", "9"}

DigitChar(d) ==
  CASE d = 0 -> "0" [] d = 1 -> "1" [] d = 2 -> "2" [] d = 3 -> "3"
    [] d = 4 -> "4" [] d = 5 -> "5" [] d = 6 -> "6" [] d = 7 -> "7"
    [] d = 8 -> "8" [] d = 9 -> "9" [] d = 10 -> "a" [] d = 11 -> "b"
    [] d = 12 -> "c" [] d = 13 -> "d" [] d = 14 -> "e" [] d = 15 -> "f"

DigitVal(c) == CHOOSE d \in 0..15 : DigitChar(d) = c

\* String(n) for a non-negative integer, in base `base` (10 or 16).
RECURSIVE NumStr(_, _)
NumStr(n, base) ==
  IF n < base THEN <<DigitChar(n)>>
  ELSE NumStr(n \div base, base) \o <<DigitChar(n % base)>>

\* String.prototype.toLowerCase / toUpperCase on one code unit of the alphabet.
UpperOf ==
  [a |-> "A", b |-> "B", c |-> "C", d |-> "D", e |-> "E", f |-> "F", g |-> "G",
   h |-> "H", i |-> "I", j |-> "J", k |-> "K", l |-> "L", m |-> "M", n |-> "N",
   o |-> "O", p |-> "P", q |-> "Q", r |-> "R", s |-> "S", t |-> "T", u |-> "U",
   v |-> "V", w |-> "W", x |-> "X", y |-> "Y", z |-> "Z"]

LowerLetters == DOMAIN UpperOf

UpperLetters == {UpperOf[c] : c \in LowerLetters}

LowerChar(c) ==
  IF c \in UpperLetters THEN CHOOSE l \in LowerLetters : UpperOf[l] = c
  ELSE IF c = "FWA" THEN "FWa" ELSE c

UpperChar(c) == IF c \in LowerLetters THEN UpperOf[c] ELSE c

toLowerCase(s) == [i \in 1..Len(s) |-> LowerChar(s[i])]

toUpperCase(s) == [i \in 1..Len(s) |-> UpperChar(s[i])]

\* String.prototype.substring on 1-based inclusive indices: the units s[m..n]
\* that exist (m >= 1).
Sub(s, m, n) ==
  LET hi == IF n < Len(s) THEN n ELSE Len(s)
  IN  IF hi < m THEN <<>> ELSE SubSeq(s, m, hi)

\* String.prototype.startsWith / endsWith / includes(one unit).
startsWith(s, p) == Len(s) >= Len(p) /\ Sub(s, 1, Len(p)) = p

endsWith(s, p) == Len(s) >= Len(p) /\ Sub(s, Len(s) - Len(p) + 1, Len(s)) = p

includes(s, c) == \E i \in 1..Len(s) : s[i] = c

\* String.prototype.slice(n): the string without its first n units.
slice(s, n) == Sub(s, n + 1, Len(s))

\* The parts of s between the occurrences of the unit sep.
RECURSIVE Split(_, _)
Split(s, sep) ==
  IF ~includes(s, sep) THEN <<s>>
  ELSE LET i == CHOOSE k \in 1..Len(s) : s[k] = sep /\ \A j \in 1..(k - 1) : s[j] # sep
       IN <<Sub(s, 1, i - 1)>> \o Split(Sub(s, i + 1, Len(s)), sep)

\* ------------------------------------------------------------------------
\* Network address classifier: isBlockedHostname
\* ------------------------------------------------------------------------

BLOCKED_HOSTNAMES ==
  { <<"l","o","c","a","l","h","o","s","t">>,
    <<"m","e","t","a","d","a","t","a",".","g","o","o","g","l","e",".",
      "i","n","t","e","r","n","a","l">>,
    <<"m","e","t","a","d","a","t","a",".","g","o","o","g">>,
    <<"i","n","s","t","a","n","c","e","-","d","a","t","a">>,
    <<"c","o","m","p","u","t","e","m","e","t","a","d","a","t","a">> }

\* /\.(local|internal|localhost|lan|corp|intranet)$/i
BlockedSuffixes ==
  { <<".","l","o","c","a","l">>,
    <<".","i","n","t","e","r","n","a","l">>,
    <<".","l","o","c","a","l","h","o","s","t">>,
    <<".","l","a","n">>,
    <<".","c","o","r","p">>,
    <<".","i","n","t","r","a","n","e","t">> }

HasBlockedSuffix(h) == \E suf \in BlockedSuffixes : endsWith(toLowerCase(h), suf)

\* /^\d{1,3}(\.\d{1,3}){3}$/
IsDottedQuad(h) ==
  LET parts == Split(h, ".")
  IN  /\ Len(parts) = 4
      /\ \A i \in 1..4 :
           /\ Len(parts[i]) \in 1..3
           /\ \A j \in 1..Len(parts[i]) : parts[i][j] \in Digits

\* s[i] is a digit in lo..hi (a character class such as [6-9]).
DigitIn(s, i, lo, hi) ==
  i <= Len(s) /\ s[i] \in Digits /\ DigitVal(s[i]) \in lo..hi

CharAt(s, i, c) == i <= Len(s) /\ s[i] = c

\* /^172\.(1[6-9]|2\d|3[01])\./
Re172(h) ==
  /\ startsWith(h, <<"1","7","2",".">>)
  /\ \/ CharAt(h, 5, "1") /\ DigitIn(h, 6, 6, 9)
     \/ CharAt(h, 5, "2") /\ DigitIn(h, 6, 0, 9)
     \/ CharAt(h, 5, "3") /\ DigitIn(h, 6, 0, 1)
  /\ CharAt(h, 7, ".")

\* /^100\.(6[4-9]|[7-9]\d|1[01]\d|12[0-7])\./
Re100(h) ==
  /\ startsWith(h, <<"1","0","0",".">>)
  /\ \/ CharAt(h, 5, "6") /\ DigitIn(h, 6, 4, 9) /\ CharAt(h, 7, ".")
     \/ DigitIn(h, 5, 7, 9) /\ DigitIn(h, 6, 0, 9) /\ CharAt(h, 7, ".")
     \/ CharAt(h, 5, "1") /\ DigitIn(h, 6, 0, 1) /\ DigitIn(h, 7, 0, 9)
          /\ CharAt(h, 8, ".")
     \/ CharAt(h, 5, "1") /\ CharAt(h, 6, "2") /\ DigitIn(h, 7, 0, 7)
          /\ CharAt(h, 8, ".")

\* BLOCKED_IPV4.some(re => re.test(h))
BLOCKED_IPV4(h) ==
  \/ startsWith(h, <<"0",".">>)                                      \* /^0\./
  \/ startsWith(h, <<"1","2","7",".">>)                              \* /^127\./
  \/ startsWith(h, <<"1","0",".">>)                                  \* /^10\./
  \/ Re172(h)
  \/ startsWith(h, <<"1","9","2",".","1","6","8",".">>)              \* /^192\.168\./
  \/ startsWith(h, <<"1","6","9",".","2","5","4",".">>)              \* /^169\.254\./
  \/ Re100(h)
  \/ startsWith(h, <<"1","9","8",".","5","1",".","1","0","0",".">>)  \* /^198\.51\.100\./
  \/ startsWith(h, <<"2","0","3",".","0",".","1","1","3",".">>)      \* /^203\.0\.113\./
  \/ startsWith(h, <<"2","4","0",".">>)                              \* /^240\./
  \/ h = <<"2","5","5",".","2","5","5",".","2","5","5",".","2","5","5">>

\* BLOCKED_IPV6.some(re => re.test(h)); the /i patterns compare case-insensitively.
BLOCKED_IPV6(h) ==
  \/ h = <<":",":","1">>                                    \* /^::1$/i
  \/ startsWith(h, <<":",":">>)                             \* /^::/
  \/ startsWith(toLowerCase(h), <<"f","c">>)                \* /^fc/i
  \/ startsWith(toLowerCase(h), <<"f","d">>)                \* /^fd/i
  \/ startsWith(toLowerCase(h), <<"f","e","8","0">>)        \* /^fe80/i
  \/ startsWith(toLowerCase(h), <<"f","f">>)                \* /^ff/i

isBlockedHostname(host) ==
  LET h == toLowerCase(host)
  IN  IF h \in BLOCKED_HOSTNAMES THEN TRUE
      ELSE IF HasBlockedSuffix(h) THEN TRUE
      ELSE IF IsDottedQuad(h) THEN BLOCKED_IPV4(h)
      ELSE IF includes(h, ":") THEN BLOCKED_IPV6(h)
      ELSE FALSE


\* ------------------------------------------------------------------------
\* URL validation and normalisation: validateUrl
\* ------------------------------------------------------------------------

\* Units of the class stripControlChars removes (C0 controls, DEL, zero-width
\* marks U+200B-U+200D, U+FEFF, direction overrides U+202A-U+202E) in the alphabet.
ControlUnits == {"NUL", "TAB", "DEL", "ZWSP", "BOM", "RLO"}

IsKept(c) == c \notin ControlUnits

stripControlChars(str) == SelectSeq(str, IsKept)

\* White space and line terminators of String.prototype.trim left in the
\* alphabet once the control units are stripped.
WhiteSpace == {" "}

RECURSIVE TrimStart(_)
TrimStart(s) ==
  IF s # <<>> /\ Head(s) \in WhiteSpace THEN TrimStart(Tail(s)) ELSE s

RECURSIVE TrimEnd(_)
TrimEnd(s) ==
  IF s # <<>> /\ s[Len(s)] \in WhiteSpace THEN TrimEnd(Sub(s, 1, Len(s) - 1)) ELSE s

trim(s) == TrimEnd(TrimStart(s))

\* The NFKC form of one unit of the alphabet: compatibility characters map to
\* their ASCII equivalents, a ligature to two units; the rest is already NFKC.
NfkcUnit(c) ==
  CASE c = "FWA" -> <<"A">>
    [] c = "FWa" -> <<"a">>
    [] c = "LIGFI" -> <<"f", "i">>
    [] OTHER -> <<c>>


MAX_URL_LENGTH == 2048

Letters == LowerLetters \cup UpperLetters

SchemeUnits == Letters \cup Digits \cup {"+", "-", "."}

\* The length of the longest prefix of s[i..] made of scheme units.
RECURSIVE SchemeRun(_, _)
SchemeRun(s, i) ==
  IF i <= Len(s) /\ s[i] \in SchemeUnits THEN 1 + SchemeRun(s, i + 1) ELSE 0

\* str.match(/^([a-zA-Z][a-zA-Z0-9+\-.]*):\/\//i): the captured scheme, or <<>>
\* when there is no match (the scheme units exclude ':', so the capture is the
\* whole run before "://").
schemeMatch(str) ==
  IF str # <<>> /\ str[1] \in Letters
  THEN LET n == SchemeRun(str, 1)
       IN  IF Sub(str, n + 1, n + 3) = <<":", "/", "/">> /\ Len(str) >= n + 3
           THEN Sub(str, 1, n) ELSE <<>>
  ELSE <<>>

HTTP == <<"h", "t", "t", "p">>

HTTPS == <<"h", "t", "t", "p", "s">>

\* --- new URL(str): the URL parser of the runtime, for an http(s) input -----
\* Follows the WHATWG URL Standard for special schemes on the alphabet of the
\* inputs below (no backslash, '%', '#', dot segment or non-ASCII host).

\* The index of the first unit of s[i..] that is in stop, or Len(s) + 1.
FindFirst(s, i, stop) ==
  LET hits == {k \in i..Len(s) : s[k] \in stop}
  IN  IF hits = {} THEN Len(s) + 1 ELSE CHOOSE k \in hits : \A j \in hits : k <= j

\* The index of the last occurrence of c in s, or 0.
RECURSIVE FindLast(_, _, _)
FindLast(s, i, c) ==
  IF i = 0 \/ s[i] = c THEN i ELSE FindLast(s, i - 1, c)

\* Special authority ignore slashes state: the first index after the slashes.
RECURSIVE SkipSlashes(_, _)
SkipSlashes(s, i) ==
  IF i <= Len(s) /\ s[i] = "/" THEN SkipSlashes(s, i + 1) ELSE i

RECURSIVE ParseInt(_)
ParseInt(ds) ==
  IF ds = <<>> THEN 0 ELSE 10 * ParseInt(Sub(ds, 1, Len(ds) - 1)) + DigitVal(ds[Len(ds)])

AllDigits(s) == s # <<>> /\ \A i \in 1..Len(s) : s[i] \in Digits

RECURSIVE Pow256(_)
Pow256(n) == IF n = 0 THEN 1 ELSE 256 * Pow256(n - 1)

\* The k bytes of v, most significant first.
RECURSIVE Bytes(_, _)
Bytes(v, k) == IF k = 0 THEN <<>> ELSE Bytes(v \div 256, k - 1) \o <<v % 256>>

\* IPv4 parser (decimal parts of up to nine digits): the four octets, or <<>> on
\* failure.  A host of fewer than four parts lets its last part fill the
\* remaining bytes.
Ipv4Parse(host) ==
  LET ps == Split(host, ".")
      n == Len(ps)
      nums == [i \in 1..n |-> IF AllDigits(ps[i]) /\ Len(ps[i]) <= 9
                              THEN ParseInt(ps[i]) ELSE -1]
  IN  IF n > 4 \/ \E i \in 1..n : nums[i] < 0 THEN <<>>
      ELSE IF \E i \in 1..(n - 1) : nums[i] > 255 THEN <<>>
      ELSE IF nums[n] \div Pow256(4 - n) > 255 THEN <<>>
      ELSE Sub(nums, 1, n - 1) \o Bytes(nums[n], 5 - n)

\* IPv4 serializer.
Ipv4Serialize(o) ==
  NumStr(o[1], 10) \o <<".">> \o NumStr(o[2], 10) \o <<".">> \o NumStr(o[3], 10)
    \o <<".">> \o NumStr(o[4], 10)

DomainUnits == Letters \cup Digits \cup {"-", "."}

Ipv6Units == Digits \cup {"a", "b", "c", "d", "e", "f", ":"}

\* Host parser and serializer: [ok, host].  An IPv6 literal keeps its square
\* brackets in the serialized host (inputs are already in compressed form); a
\* domain is lowercased; a host whose last label is a number is an IPv4 address.
HostParse(h) ==
  IF h = <<>> THEN [ok |-> FALSE, host |-> <<>>]
  ELSE IF h[1] = "[" THEN
    LET inner == toLowerCase(Sub(h, 2, Len(h) - 1))
    IN  IF h[Len(h)] = "]" /\ includes(inner, ":")
             /\ \A i \in 1..Len(inner) : inner[i] \in Ipv6Units
        THEN [ok |-> TRUE, host |-> <<"[">> \o inner \o <<"]">>]
        ELSE [ok |-> FALSE, host |-> <<>>]
  ELSE IF \E i \in 1..Len(h) : h[i] \notin DomainUnits THEN [ok |-> FALSE, host |-> <<>>]
  ELSE LET d == toLowerCase(h)
           ps == Split(d, ".")
       IN  IF AllDigits(ps[Len(ps)])
           THEN LET v == Ipv4Parse(d)
                IN  IF v = <<>> THEN [ok |-> FALSE, host |-> <<>>]
                    ELSE [ok |-> TRUE, host |-> Ipv4Serialize(v)]
           ELSE [ok |-> TRUE, host |-> d]

\* UTF-8 percent-encoding of a unit in the path percent-encode set.
PathEncode(c) ==
  CASE c = " " -> <<"%", "2", "0">>
    [] c = "EACUTE" -> <<"%", "C", "3", "%", "A", "9">>
    [] c = "?" -> <<"%", "3", "F">>
    [] OTHER -> <<c>>

\* The same for the special-query percent-encode set.
QueryEncode(c) ==
  CASE c = " " -> <<"%", "2", "0">>
    [] c = "EACUTE" -> <<"%", "C", "3", "%", "A", "9">>
    [] OTHER -> <<c>>

\* What a per-unit mapping of a string puts in place of the unit c.
UnitImage(kind, c) ==
  CASE kind = "nfkc" -> NfkcUnit(c)
    [] kind = "path" -> PathEncode(c)
    [] kind = "query" -> QueryEncode(c)

\* The images of the units s[lo..hi], concatenated.
RECURSIVE FlatMap(_, _, _, _)
FlatMap(kind, s, lo, hi) ==
  IF lo > hi THEN <<>>
  ELSE IF lo = hi THEN UnitImage(kind, s[lo])
  ELSE LET mid == (lo + hi) \div 2
       IN  FlatMap(kind, s, lo, mid) \o FlatMap(kind, s, mid + 1, hi)

normalizeNFKC(s) == FlatMap("nfkc", s, 1, Len(s))

DefaultPort(scheme) == IF scheme = HTTP THEN <<"8", "0">> ELSE <<"4", "4", "3">>

NoUrl ==
  [ok |-> FALSE, protocol |-> <<>>, username |-> <<>>, password |-> <<>>,
   hostname |-> <<>>, port |-> <<>>, pathname |-> <<>>, search |-> <<>>]

\* new URL(str) for str with an http or https scheme followed by "://".
ParseUrl(str) ==
  LET colon == FindFirst(str, 1, {":"})
      scheme == toLowerCase(Sub(str, 1, colon - 1))
      start == SkipSlashes(str, colon + 1)
      authEnd == FindFirst(str, start, {"/", "?"})
      authority == Sub(str, start, authEnd - 1)
      at == FindLast(authority, Len(authority), "@")
      cred == Sub(authority, 1, at - 1)
      credColon == FindFirst(cred, 1, {":"})
      hostport == Sub(authority, at + 1, Len(authority))
      bracket == FindLast(hostport, Len(hostport), "]")
      portColon == FindFirst(hostport, bracket + 1, {":"})
      host == HostParse(Sub(hostport, 1, portColon - 1))
      portStr == Sub(hostport, portColon + 1, Len(hostport))
      portOk == portStr = <<>> \/ (AllDigits(portStr) /\ Len(portStr) <= 5
                                   /\ ParseInt(portStr) <= 65535)
      port == IF portStr = <<>> THEN <<>> ELSE NumStr(ParseInt(portStr), 10)
      pathEnd == FindFirst(str, authEnd, {"?"})
      path == Sub(str, authEnd, pathEnd - 1)
      query == Sub(str, pathEnd + 1, Len(str))
  IN  IF ~host.ok \/ ~portOk THEN NoUrl
      ELSE [ok |-> TRUE,
            protocol |-> scheme \o <<":">>,
            username |-> Sub(cred, 1, credColon - 1),
            password |-> Sub(cred, credColon + 1, Len(cred)),
            hostname |-> host.host,
            port |-> IF port = DefaultPort(scheme) THEN <<>> ELSE port,
            pathname |-> IF path = <<>> THEN <<"/">>
                         ELSE <<"/">> \o FlatMap("path", path, 2, Len(path)),
            search |-> IF query = <<>> THEN <<>>
                       ELSE <<"?">> \o FlatMap("query", query, 1, Len(query))]

\* parsed.toString(): the URL serializer.
UrlToString(u) ==
  u.protocol \o <<"/", "/">> \o u.hostname
    \o (IF u.port = <<>> THEN <<>> ELSE <<":">> \o u.port) \o u.pathname \o u.search

Fail(reason) == [ok |-> FALSE, url |-> <<>>, error |-> reason]

\* Lines 231-241: lowercase scheme and host, strip a default port, serialize.
NormaliseUrl(parsed) ==
  LET u1 == [parsed EXCEPT !.protocol = toLowerCase(parsed.protocol),
                           !.hostname = toLowerCase(parsed.hostname)]
      u2 == IF \/ u1.protocol = HTTP \o <<":">> /\ u1.port = <<"8", "0">>
               \/ u1.protocol = HTTPS \o <<":">> /\ u1.port = <<"4", "4", "3">>
            THEN [u1 EXCEPT !.port = <<>>] ELSE u1
  IN  [ok |-> TRUE, url |-> UrlToString(u2), error |-> "none"]

\* The string the length and scheme checks see (lines 169-172).
Sanitise(s) == normalizeNFKC(trim(stripControlChars(s)))

\* The limit applied to the string as received instead of the sanitised one.
LengthCheckedRaw(r, str) == Len(r)

\* The value the 2048-unit limit is applied to (line 178): str.length, where r
\* is the string as received and str its sanitised form.
LengthChecked(r, str) == Len(str)

\* Lines 194-241, for a string that passed the scheme checks.
ValidateParsed(str) ==
  LET parsed == ParseUrl(str)
  IN  IF ~parsed.ok THEN Fail("URL is not valid and could not be parsed.")
      ELSE IF parsed.protocol # HTTP \o <<":">> /\ parsed.protocol # HTTPS \o <<":">>
        THEN Fail("Only http and https URLs are accepted.")
      ELSE IF parsed.username # <<>> \/ parsed.password # <<>>
        THEN Fail("URLs with embedded credentials are not accepted.")
      ELSE IF parsed.hostname = <<>>
        THEN Fail("URL must contain a valid hostname.")
      ELSE IF ~(IsDottedQuad(parsed.hostname) \/ includes(parsed.hostname, ":"))
              /\ ~includes(parsed.hostname, ".")
        THEN Fail("URL hostname does not appear to be a valid domain.")
      ELSE IF isBlockedHostname(parsed.hostname)
        THEN Fail("URL resolves to a reserved or private address.")
      ELSE NormaliseUrl(parsed)

validateUrl(r) ==
  IF ~r.isString THEN Fail("URL must be a string.")
  ELSE LET str == Sanitise(r.s)
           scheme == toLowerCase(schemeMatch(str))
       IN  IF Len(str) = 0 THEN Fail("URL must not be empty.")
           ELSE IF LengthChecked(r.s, str) > MAX_URL_LENGTH
             THEN Fail("URL must be 2048 characters or fewer.")
           ELSE IF schemeMatch(str) = <<>>
             THEN Fail("URL must include a scheme (https:// or http://).")
           ELSE IF scheme # HTTP /\ scheme # HTTPS
             THEN Fail("URL scheme is not allowed. Only http and https are accepted.")
           ELSE ValidateParsed(str)


\* ------------------------------------------------------------------------
\* Admin key auth: timingSafeEqual and checkAdminAuth
\* ------------------------------------------------------------------------

\* TextEncoder.encode on one unit of the alphabet: its UTF-8 bytes.
Utf8Unit(c) ==
  CASE c = "a" -> <<97>>
    [] c = "b" -> <<98>>
    [] c = "k" -> <<107>>
    [] c = " " -> <<32>>
    [] c = "EACUTE" -> <<195, 169>>

RECURSIVE encode(_)
encode(str) == IF str = <<>> THEN <<>> ELSE Utf8Unit(Head(str)) \o encode(Tail(str))

\* x ^ y and x | y on bytes.
RECURSIVE BitXor(_, _)
BitXor(x, y) ==
  IF x = 0 /\ y = 0 THEN 0
  ELSE (((x % 2) + (y % 2)) % 2) + 2 * BitXor(x \div 2, y \div 2)

RECURSIVE BitOr(_, _)
BitOr(x, y) ==
  IF x = 0 /\ y = 0 THEN 0
  ELSE (IF x % 2 = 1 \/ y % 2 = 1 THEN 1 ELSE 0) + 2 * BitOr(x \div 2, y \div 2)

\* The loop leaving as soon as a difference is seen.
LoopContinuesUntilMismatch(i, n, d) == i < n /\ d = 0

\* The loop condition i < ab.length of both loops (lines 73 and 77).
LoopContinues(i, n, d) == i < n

\* The comparison succeeding whenever no difference was accumulated.
CompareResultIgnoringLength(unequalLength, d) == d = 0

\* What timingSafeEqual returns after its loop: false (line 74) on the
\* unequal-length branch, diff === 0 (line 78) otherwise.
CompareResult(unequalLength, d) == IF unequalLength THEN FALSE ELSE d = 0

MIN_KEY_LENGTH == 16

\* A secret used whatever its length, as long as one is set.
KeyUsableAnyLength(key) == key.set /\ key.s # <<>>

\* Line 84: adminKey is set, non-empty and has at least 16 units.
KeyUsable(key) == key.set /\ key.s # <<>> /\ Len(key.s) >= MIN_KEY_LENGTH

BEARER == <<"B", "e", "a", "r", "e", "r", " ">>

\* (request.headers.get('Authorization') || '').trim()
AuthValue(h) == trim(IF h.present THEN h.s ELSE <<>>)

\* checkAdminAuth up to the call of timingSafeEqual (lines 82-90), and the
\* start of timingSafeEqual (lines 67-72, 76).
CheckAdminAuth ==
  /\ authPc = "call"
  /\ LET auth == AuthValue(authHeader)
         token == slice(auth, 7)
     IN  IF ~KeyUsable(adminKey) \/ ~startsWith(auth, BEARER)
         THEN /\ authResult' = FALSE
              /\ authPc' = "ret"
              /\ UNCHANGED <<cmpArgs, ab, bb, idx, diff, cmpStats>>
         ELSE /\ cmpArgs' = <<token, adminKey.s>>
              /\ ab' = encode(token)
              /\ bb' = encode(adminKey.s)
              /\ authPc' = IF Len(encode(token)) # Len(encode(adminKey.s))
                           THEN "unequal" ELSE "equal"
              /\ idx' = 0
              /\ diff' = 0
              /\ cmpStats' = [cmpStats EXCEPT !.calls = @ + 1]
              /\ UNCHANGED authResult
  /\ UNCHANGED <<adminKey, authHeader, authParts>>

\* One iteration of the loop of line 73:
\* diff |= ab[i] ^ (bb[i % bb.length] ?? 0).
StepUnequal ==
  /\ authPc = "unequal"
  /\ LoopContinues(idx, Len(ab), diff)
  /\ LET at == IF Len(bb) = 0 THEN -1 ELSE idx % Len(bb)
         read == IF at \in 0..(Len(bb) - 1) THEN bb[at + 1] ELSE 0
     IN  /\ diff' = BitOr(diff, BitXor(ab[idx + 1], read))
         /\ cmpStats' = [cmpStats EXCEPT !.iters = @ + 1,
                           !.outOfBounds = @ \/ at \notin 0..(Len(bb) - 1)]
  /\ idx' = idx + 1
  /\ UNCHANGED <<adminKey, authHeader, authParts, authPc, cmpArgs, ab, bb, authResult>>

\* One iteration of the loop of line 77: diff |= ab[i] ^ bb[i].
StepEqual ==
  /\ authPc = "equal"
  /\ LoopContinues(idx, Len(ab), diff)
  /\ diff' = BitOr(diff, BitXor(ab[idx + 1], bb[idx + 1]))
  /\ cmpStats' = [cmpStats EXCEPT !.iters = @ + 1,
                    !.outOfBounds = @ \/ idx \notin 0..(Len(bb) - 1)]
  /\ idx' = idx + 1
  /\ UNCHANGED <<adminKey, authHeader, authParts, authPc, cmpArgs, ab, bb, authResult>>

\* The loop is over: timingSafeEqual returns (line 74 or 78) and checkAdminAuth
\* returns its result (line 90).
CompareReturn ==
  /\ authPc \in {"unequal", "equal"}
  /\ ~LoopContinues(idx, Len(ab), diff)
  /\ authResult' = CompareResult(authPc = "unequal", diff)
  /\ authPc' = "ret"
  /\ UNCHANGED <<adminKey, authHeader, authParts, cmpArgs, ab, bb, idx, diff, cmpStats>>

AuthStart(pc) ==
  /\ authPc = pc
  /\ cmpArgs = <<>>
  /\ ab = <<>>
  /\ bb = <<>>
  /\ idx = 0
  /\ diff = 0
  /\ cmpStats = [calls |-> 0, iters |-> 0, outOfBounds |-> FALSE]
  /\ authResult = FALSE

AuthIdle ==
  /\ adminKey = [set |-> FALSE, s |-> <<>>]
  /\ authHeader = [present |-> FALSE, s |-> <<>>]
  /\ authParts = [scheme |-> "none", token |-> <<>>]
  /\ AuthStart("idle")

\* ------------------------------------------------------------------------
\* Slug validation for lookups: validateLookupSlug
\* ------------------------------------------------------------------------
\* A JSON value is a record tagged with its JavaScript type: [t |-> "undefined"],
\* [t |-> "string", s |-> units], [t |-> "number"], [t |-> "boolean", b |-> ...],
\* [t |-> "array", a |-> values].

JsUndefined == [t |-> "undefined"]

JsString(s) == [t |-> "string", s |-> s]

JsNumber == [t |-> "number"]

JsBoolean(b) == [t |-> "boolean", b |-> b]

JsArray(a) == [t |-> "array", a |-> a]

SlugFail(reason) == [ok |-> FALSE, slug |-> <<>>, error |-> reason]

\* The lookup pattern without the hyphen and the underscore.
LookupSlugUnitsAlnum == LowerLetters \cup Digits

\* /^[a-z0-9\-_]+$/
LookupSlugUnits == LowerLetters \cup Digits \cup {"-", "_"}

HasDotDot(s) == \E i \in 1..(Len(s) - 1) : s[i] = "." /\ s[i + 1] = "."

validateLookupSlug(v) ==
  IF v.t # "string" THEN SlugFail("slug must be a string.")
  ELSE LET slug == toLowerCase(trim(stripControlChars(v.s)))
       IN  IF Len(slug) < 1 \/ Len(slug) > 64
             THEN SlugFail("slug must be between 1 and 64 characters.")
           ELSE IF \E i \in 1..Len(slug) : slug[i] \notin LookupSlugUnits
             THEN SlugFail("slug contains invalid characters.")
           ELSE IF HasDotDot(slug)
             THEN SlugFail("slug must not contain path traversal sequences.")
           ELSE [ok |-> TRUE, slug |-> slug, error |-> "none"]

\* ------------------------------------------------------------------------
\* Request guards: readJsonBody
\* ------------------------------------------------------------------------

MAX_BODY_BYTES == 8192

APPLICATION_JSON == <<"a", "p", "p", "l", "i", "c", "a", "t", "i", "o", "n", "/", "j", "s", "o", "n">>

\* (request.headers.get('Content-Type') || '').split(';')[0].trim().toLowerCase()
ContentType(h) == toLowerCase(trim(Split(h, ";")[1]))

\* The running total after each chunk of the stream.
RECURSIVE RunningTotals(_, _)
RunningTotals(chunks, sofar) ==
  IF chunks = <<>> THEN <<>>
  ELSE <<sofar + Head(chunks)>> \o RunningTotals(Tail(chunks), sofar + Head(chunks))

BodyFail(reason) == [ok |-> FALSE, error |-> reason]

\* readJsonBody(request) for a request b = [contentType, contentLength, chunks,
\* readable, json]: contentLength is the parsed header (0 when absent, -1 for NaN),
\* chunks the byte lengths the stream delivers, readable whether the body
\* stream exists and its bytes decode as UTF-8,
\* json the parsed text ([kind |-> "invalid"] when JSON.parse throws).
readJsonBody(b) ==
  LET totals == RunningTotals(b.chunks, 0)
  IN  IF ContentType(b.contentType) # APPLICATION_JSON
        THEN BodyFail("Content-Type must be application/json.")
      ELSE IF b.contentLength > MAX_BODY_BYTES
        THEN BodyFail("Request body too large.")
      ELSE IF \E i \in 1..Len(totals) : totals[i] > MAX_BODY_BYTES
        THEN BodyFail("Request body too large.")
      ELSE IF ~b.readable THEN BodyFail("Could not read request body.")
      ELSE IF b.json.kind = "invalid" THEN BodyFail("Invalid JSON payload.")
      ELSE IF b.json.kind # "object" THEN BodyFail("JSON payload must be an object.")
      ELSE [ok |-> TRUE, error |-> "none", body |-> b.json]

\* ------------------------------------------------------------------------
\* The key-value store env.LINKS and the handlers of /api/lookup and /api/admin
\* ------------------------------------------------------------------------

NoRecord == [present |-> FALSE]

\* kv.get(key, { type: 'json' }): the stored record, or null.
KvGet(store, key) == IF key \in DOMAIN store THEN store[key] ELSE NoRecord

\* The keys kv.list enumerates, in its (lexicographic) order.
KvKeyOrder == << <<"a", "b", "3", "x">>, <<"y", "z", "9", "q">> >>

KvKeys == {KvKeyOrder[i] : i \in 1..Len(KvKeyOrder)}

\* The keys present in the store, in list order.
StoredKeys(store) == SelectSeq(KvKeyOrder, LAMBDA k : store[k].present)

\* value || null
OrNull(v) == IF v = "" THEN "null" ELSE v

\* formatRecord with the private fields always copied.
formatRecordWithPrivate(record, baseUrl, includePrivate) ==
  [slug |-> record.slug, shortUrl |-> <<baseUrl, record.slug>>, url |-> record.url,
   createdAt |-> record.createdAt, country |-> OrNull(record.country),
   ip |-> OrNull(record.ip), userAgent |-> OrNull(record.userAgent)]

formatRecord(record, baseUrl, includePrivate) ==
  LET out == [slug |-> record.slug, shortUrl |-> <<baseUrl, record.slug>>,
              url |-> record.url, createdAt |-> record.createdAt,
              country |-> OrNull(record.country)]
  IN  IF includePrivate
      THEN out @@ [ip |-> OrNull(record.ip), userAgent |-> OrNull(record.userAgent)]
      ELSE out

BATCH_LIMIT == 50

BaseUrl == "https://b0x.nz"

\* The admin handlers going on whatever checkAdminAuth returned.
NeverUnauthorized(authorised) == FALSE

\* if (!checkAdminAuth(request, env)) return unauthorized();
Unauthorized(authorised) == ~authorised

Locals0 ==
  [bodyResult |-> BodyFail("none"), isAdmin |-> FALSE, pending |-> {},
   validated |-> <<>>, results |-> <<>>, results2 |-> <<>>, notFound |-> <<>>,
   notFound2 |-> <<>>, page |-> <<>>, cursor |-> 0, complete |-> FALSE, deleted |-> 0]

Trace0 == [kvLog |-> <<>>, bodyCalls |-> 0]

NoResponse == [status |-> 0]

Respond(r, r2) ==
  /\ resp' = r
  /\ resp2' = r2
  /\ apiPc' = "done"

Log(ops) == trace' = [trace EXCEPT !.kvLog = @ \o ops]

GetOps(keys) == [i \in 1..Len(keys) |-> [op |-> "get", key |-> keys[i]]]

DeleteOps(keys) == [i \in 1..Len(keys) |-> [op |-> "delete", key |-> keys[i]]]

\* An unhandled rejection of a KV call: the runtime answers for the handler.
Exception == [status |-> 500, error |-> "exception"]

\* --- POST /api/lookup ------------------------------------------------------

\* Lines 32-37: read the body, then call checkAdminAuth.
LookupReadBody ==
  /\ apiPc = "start"
  /\ route = "lookup"
  /\ LET bodyResult == readJsonBody(req)
     IN  /\ loc' = [loc EXCEPT !.bodyResult = bodyResult]
         /\ trace' = [trace EXCEPT !.bodyCalls = @ + 1]
         /\ IF ~bodyResult.ok
            THEN /\ Respond([status |-> 400, error |-> bodyResult.error],
                            [status |-> 400, error |-> bodyResult.error])
                 /\ UNCHANGED authPc
            ELSE /\ apiPc' = "auth"
                 /\ authPc' = "call"
                 /\ UNCHANGED <<resp, resp2>>
  /\ UNCHANGED <<route, req, kv0, kv, kv2>>
  /\ UNCHANGED <<adminKey, authHeader, authParts, cmpArgs, ab, bb, idx, diff, cmpStats,
                 authResult>>

\* Lines 37-102 up to the first await: isAdmin, then the single lookup, the
\* batch lookup (every slug validated, then every get issued), or the error.
LookupDispatch ==
  /\ apiPc = "auth"
  /\ authPc = "ret"
  /\ route = "lookup"
  /\ LET body == loc.bodyResult.body
         sv == validateLookupSlug(body.slug)
         svs == [i \in 1..Len(body.slugs.a) |-> validateLookupSlug(body.slugs.a[i])]
         err(status, e) == Respond([status |-> status, error |-> e],
                                   [status |-> status, error |-> e])
     IN  IF body.slug.t # "undefined" THEN
           IF ~sv.ok
           THEN err(422, sv.error) /\ UNCHANGED trace
                  /\ loc' = [loc EXCEPT !.isAdmin = authResult]
           ELSE /\ apiPc' = "lookup_get"
                /\ loc' = [loc EXCEPT !.isAdmin = authResult, !.validated = <<sv.slug>>]
                /\ Log(GetOps(<<sv.slug>>))
                /\ UNCHANGED <<resp, resp2>>
         ELSE IF body.slugs.t = "array" THEN
           IF Len(body.slugs.a) = 0
           THEN err(400, "slugs array must not be empty.") /\ UNCHANGED trace
                  /\ loc' = [loc EXCEPT !.isAdmin = authResult]
           ELSE IF Len(body.slugs.a) > BATCH_LIMIT
           THEN err(400, "Batch requests are limited.") /\ UNCHANGED trace
                  /\ loc' = [loc EXCEPT !.isAdmin = authResult]
           ELSE IF \E i \in 1..Len(svs) : ~svs[i].ok
           THEN err(422, "Invalid slug.") /\ UNCHANGED trace
                  /\ loc' = [loc EXCEPT !.isAdmin = authResult]
           ELSE LET validated == [i \in 1..Len(svs) |-> svs[i].slug]
                IN  /\ apiPc' = "lookup_batch"
                    /\ loc' = [loc EXCEPT !.isAdmin = authResult,
                                          !.validated = validated,
                                          !.pending = 1..Len(validated)]
                    /\ Log(GetOps(validated))
                    /\ UNCHANGED <<resp, resp2>>
         ELSE err(400, "Payload must include slug or slugs.") /\ UNCHANGED trace
                /\ loc' = [loc EXCEPT !.isAdmin = authResult]
  /\ UNCHANGED <<route, req, kv0, kv, kv2, authVars>>

\* Lines 48-57: the awaited get of the single lookup resolves (or rejects).
LookupGetDone ==
  /\ apiPc = "lookup_get"
  /\ \/ Respond(Exception, Exception)
     \/ LET slug == loc.validated[1]
            one(store) ==
              IF ~KvGet(store, slug).present
              THEN [status |-> 404, error |-> "Slug not found.", slug |-> slug]
              ELSE [status |-> 200,
                    record |-> formatRecord(KvGet(store, slug).rec, BaseUrl, loc.isAdmin)]
        IN  Respond(one(kv), one(kv2))
  /\ UNCHANGED <<route, req, kv0, kv, kv2, loc, trace, authVars>>

\* Lines 83-87: one of the outstanding gets of the batch resolves, in any order.
LookupBatchGetDone ==
  /\ apiPc = "lookup_batch"
  /\ \E i \in loc.pending :
       LET s == loc.validated[i]
           r == KvGet(kv, s)
           r2 == KvGet(kv2, s)
       IN  /\ loc' = [loc EXCEPT
                 !.pending = @ \ {i},
                 !.results = IF r.present
                             THEN Append(@, formatRecord(r.rec, BaseUrl, loc.isAdmin))
                             ELSE @,
                 !.notFound = IF r.present THEN @ ELSE Append(@, s),
                 !.results2 = IF r2.present
                              THEN Append(@, formatRecord(r2.rec, BaseUrl, loc.isAdmin))
                              ELSE @,
                 !.notFound2 = IF r2.present THEN @ ELSE Append(@, s)]
  /\ UNCHANGED <<route, req, kv0, kv, kv2, apiPc, trace, resp, resp2, authVars>>

\* Lines 82, 90-94: Promise.all settles; a rejected get is an unhandled rejection.
LookupBatchRespond ==
  /\ apiPc = "lookup_batch"
  /\ \/ Respond(Exception, Exception)
     \/ /\ loc.pending = {}
        /\ Respond([status |-> 200, results |-> loc.results, notFound |-> loc.notFound,
                    count |-> Len(loc.results)],
                   [status |-> 200, results |-> loc.results2, notFound |-> loc.notFound2,
                    count |-> Len(loc.results2)])
  /\ UNCHANGED <<route, req, kv0, kv, kv2, loc, trace, authVars>>

\* --- GET and DELETE /api/admin ----------------------------------------------

\* admin.js lines 35-36 and 52-53: the handler's first statement calls checkAdminAuth.
AdminStart ==
  /\ apiPc = "start"
  /\ route \in {"admin_get", "admin_delete"}
  /\ apiPc' = "auth"
  /\ authPc' = "call"
  /\ UNCHANGED <<route, req, kv0, kv, kv2, loc, trace, resp, resp2>>
  /\ UNCHANGED <<adminKey, authHeader, authParts, cmpArgs, ab, bb, idx, diff, cmpStats,
                 authResult>>

Unauthorized401 == [status |-> 401, error |-> "Unauthorized."]

\* admin.js lines 36-39: GET after the auth check.
AdminGetGate ==
  /\ apiPc = "auth"
  /\ authPc = "ret"
  /\ route = "admin_get"
  /\ IF Unauthorized(authResult)
     THEN Respond(Unauthorized401, Unauthorized401)
     ELSE apiPc' = "admin_list" /\ UNCHANGED <<resp, resp2>>
  /\ UNCHANGED <<route, req, kv0, kv, kv2, loc, trace, authVars>>

\* getAllLinks, lines 22-27: kv.list returns the next page of keys (the store
\* may return fewer than the limit) and a get is issued for each; a rejection is
\* caught by the handler (line 46).
AdminList ==
  /\ apiPc = "admin_list"
  /\ \/ /\ Respond([status |-> 500, error |-> "Failed to retrieve records."],
                   [status |-> 500, error |-> "Failed to retrieve records."])
        /\ Log(<<[op |-> "list", key |-> <<>>]>>)
        /\ UNCHANGED loc
     \/ LET keys == StoredKeys(kv)
            left == Len(keys) - loc.cursor
        IN  \E n \in (IF left = 0 THEN {0} ELSE 1..left) :
              LET page == Sub(keys, loc.cursor + 1, loc.cursor + n)
              IN  /\ loc' = [loc EXCEPT !.page = page, !.pending = 1..n,
                                        !.cursor = @ + n, !.complete = (n = left)]
                  /\ Log(<<[op |-> "list", key |-> <<>>]>> \o GetOps(page))
                  /\ apiPc' = "admin_gets"
                  /\ UNCHANGED <<resp, resp2>>
  /\ UNCHANGED <<route, req, kv0, kv, kv2, authVars>>

\* getAllLinks, lines 23-26: one outstanding get of the page resolves.
AdminGetDone ==
  /\ apiPc = "admin_gets"
  /\ \E i \in loc.pending :
       LET r == KvGet(kv, loc.page[i])
           r2 == KvGet(kv2, loc.page[i])
       IN  loc' = [loc EXCEPT
             !.pending = @ \ {i},
             !.results = IF r.present THEN Append(@, r.rec) ELSE @,
             !.results2 = IF r2.present THEN Append(@, r2.rec) ELSE @]
  /\ UNCHANGED <<route, req, kv0, kv, kv2, apiPc, trace, resp, resp2, authVars>>

\* getAllLinks, lines 27-30, and admin.js lines 40-47: the page is done; list
\* again while the listing is incomplete, else answer with the links.
AdminPageDone ==
  /\ apiPc = "admin_gets"
  /\ \/ Respond([status |-> 500, error |-> "Failed to retrieve records."],
                [status |-> 500, error |-> "Failed to retrieve records."])
     \/ /\ loc.pending = {}
        /\ IF loc.complete
           THEN Respond([status |-> 200, links |-> loc.results, count |-> Len(loc.results)],
                        [status |-> 200, links |-> loc.results2, count |-> Len(loc.results2)])
           ELSE apiPc' = "admin_list" /\ UNCHANGED <<resp, resp2>>
  /\ UNCHANGED <<route, req, kv0, kv, kv2, loc, trace, authVars>>

\* admin.js lines 53-99 up to the first KV call: DELETE after the auth check
\* reads the body and chooses between purge, single delete and the error.
AdminDeleteGate ==
  /\ apiPc = "auth"
  /\ authPc = "ret"
  /\ route = "admin_delete"
  /\ LET bodyResult == readJsonBody(req)
         body == bodyResult.body
         sv == validateLookupSlug(body.slug)
         err(status, e) == Respond([status |-> status, error |-> e],
                                   [status |-> status, error |-> e])
     IN  IF Unauthorized(authResult)
         THEN Respond(Unauthorized401, Unauthorized401) /\ UNCHANGED <<loc, trace>>
         ELSE /\ IF ~bodyResult.ok THEN err(400, bodyResult.error) /\ UNCHANGED loc
                 ELSE IF body.purgeAll.t = "boolean" /\ body.purgeAll.b
                   THEN /\ apiPc' = "purge_list"
                        /\ UNCHANGED <<resp, resp2, loc>>
                 ELSE IF body.slug.t # "undefined"
                   THEN IF ~sv.ok THEN err(422, sv.error) /\ UNCHANGED loc
                        ELSE /\ apiPc' = "delete_one"
                             /\ loc' = [loc EXCEPT !.validated = <<sv.slug>>]
                             /\ UNCHANGED <<resp, resp2>>
                 ELSE err(400, "Provide either slug or purgeAll.") /\ UNCHANGED loc
              /\ trace' = [trace EXCEPT !.bodyCalls = @ + 1]
  /\ UNCHANGED <<route, req, kv0, kv, kv2, authVars>>

\* admin.js lines 67-68: the next page of keys of the purge.
PurgeList ==
  /\ apiPc = "purge_list"
  /\ Log(<<[op |-> "list", key |-> <<>>]>>)
  /\ \/ /\ Respond([status |-> 500, error |-> "Purge failed."],
                   [status |-> 500, error |-> "Purge failed."])
        /\ UNCHANGED loc
     \/ LET keys == StoredKeys(kv)
        IN  \E n \in (IF Len(keys) = 0 THEN {0} ELSE 1..Len(keys)) :
              /\ loc' = [loc EXCEPT !.page = Sub(keys, 1, n), !.complete = (n = Len(keys))]
              /\ apiPc' = "purge_delete"
              /\ UNCHANGED <<resp, resp2>>
  /\ UNCHANGED <<route, req, kv0, kv, kv2, authVars>>

\* admin.js lines 68-75: every key of the page is deleted; list again while
\* the listing is incomplete, else answer with the count.
PurgeDelete ==
  /\ apiPc = "purge_delete"
  /\ Log(DeleteOps(loc.page))
  /\ LET gone == {loc.page[i] : i \in 1..Len(loc.page)}
         deleted == loc.deleted + Len(loc.page)
         wipe(store) == [k \in DOMAIN store |-> IF k \in gone THEN NoRecord ELSE store[k]]
     IN  /\ kv' = wipe(kv)
         /\ kv2' = wipe(kv2)
         /\ loc' = [loc EXCEPT !.deleted = deleted]
         /\ IF loc.complete
            THEN Respond([status |-> 200, success |-> TRUE, deleted |-> deleted],
                         [status |-> 200, success |-> TRUE, deleted |-> deleted])
            ELSE apiPc' = "purge_list" /\ UNCHANGED <<resp, resp2>>
  /\ UNCHANGED <<route, req, kv0, authVars>>

\* admin.js lines 88-93: the single delete.
DeleteOne ==
  /\ apiPc = "delete_one"
  /\ Log(DeleteOps(loc.validated))
  /\ LET slug == loc.validated[1]
         wipe(store) == [k \in DOMAIN store |-> IF k = slug THEN NoRecord ELSE store[k]]
     IN  \/ /\ Respond([status |-> 500, error |-> "Delete failed."],
                       [status |-> 500, error |-> "Delete failed."])
            /\ UNCHANGED <<kv, kv2>>
         \/ /\ kv' = wipe(kv)
            /\ kv2' = wipe(kv2)
            /\ Respond([status |-> 200, success |-> TRUE, slug |-> slug],
                       [status |-> 200, success |-> TRUE, slug |-> slug])
  /\ UNCHANGED <<route, req, kv0, loc, authVars>>

HandlerIdle ==
  /\ route = "none"
  /\ req = [contentType |-> <<>>]
  /\ apiPc = "idle"
  /\ loc = Locals0
  /\ trace = Trace0
  /\ resp = NoResponse
  /\ resp2 = NoResponse

ApiIdle ==
  /\ HandlerIdle
  /\ kv = [k \in KvKeys |-> NoRecord]
  /\ kv2 = [k \in KvKeys |-> NoRecord]
  /\ kv0 = [k \in KvKeys |-> NoRecord]

\* ------------------------------------------------------------------------
\* readJsonBody step by step: the header checks, the read loop, the decoding
\* ------------------------------------------------------------------------

NaN == [nan |-> TRUE, v |-> 0]

\* The longest run of digits of s from position i on.
RECURSIVE DigitRun(_, _)
DigitRun(s, i) ==
  IF i <= Len(s) /\ s[i] \in Digits THEN <<s[i]>> \o DigitRun(s, i + 1) ELSE <<>>

\* parseInt(s, 10): leading white space skipped, an optional sign, then the
\* longest run of decimal digits; NaN when there is none.
parseInt(s) ==
  LET t == TrimStart(s)
      signed == t # <<>> /\ t[1] \in {"+", "-"}
      ds == DigitRun(t, IF signed THEN 2 ELSE 1)
  IN  IF ds = <<>> THEN NaN
      ELSE [nan |-> FALSE,
            v |-> IF signed /\ t[1] = "-" THEN 0 - ParseInt(ds) ELSE ParseInt(ds)]

\* request.headers.get(name) || fallback
HeaderOr(h, fallback) == IF h.present /\ h.s # <<>> THEN h.s ELSE fallback

TOO_LARGE == "Request body too large."

\* readJsonBody trusting the stream check alone and ignoring the header.
ExceedsCapIgnored(n) == FALSE

\* contentLength > MAX_BODY_BYTES (line 332); false for NaN.
ExceedsCap(n) == ~n.nan /\ n.v > MAX_BODY_BYTES

\* The comparison of line 347 done on the bytes kept so far, before the chunk.
OverCapBeforeChunk(total, chunk) == total - chunk > MAX_BODY_BYTES

\* total > MAX_BODY_BYTES (line 347), total already counting the chunk just read.
OverCap(total, chunk) == total > MAX_BODY_BYTES

Reader0 ==
  [obtained |-> FALSE, reads |-> 0, taken |-> 0, total |-> 0, kept |-> <<>>,
   cancelled |-> FALSE, rejected |-> FALSE]

BodyReturn(r) ==
  /\ bodyRet' = r
  /\ bodyPc' = "done"

\* Lines 326-339: the Content-Type check, the Content-Length check, getReader.
\* A request without a body has request.body null: getReader throws, which the
\* catch of line 358 turns into a failure.
BodyStart ==
  /\ bodyPc = "call"
  /\ LET ct == ContentType(HeaderOr(bodyReq.contentType, <<>>))
         contentLength == parseInt(HeaderOr(bodyReq.contentLength, <<"0">>))
     IN  IF ct # APPLICATION_JSON
           THEN BodyReturn(BodyFail("Content-Type must be application/json."))
                  /\ UNCHANGED bodyRd
         ELSE IF ExceedsCap(contentLength)
           THEN BodyReturn(BodyFail(TOO_LARGE)) /\ UNCHANGED bodyRd
         ELSE IF ~bodyReq.hasBody
           THEN BodyReturn(BodyFail("Could not read request body.")) /\ UNCHANGED bodyRd
         ELSE /\ bodyRd' = [bodyRd EXCEPT !.obtained = TRUE]
              /\ bodyPc' = "read"
              /\ UNCHANGED bodyRet
  /\ UNCHANGED bodyReq

\* Lines 343-352: one reader.read() and what the loop does with its result.
\* The read rejects (the connection broke), reports done, or delivers the
\* next chunk of the stream.
BodyRead ==
  /\ bodyPc = "read"
  /\ LET n == Len(bodyRd.kept) + 1
     IN  \/ /\ bodyRd' = [bodyRd EXCEPT !.reads = @ + 1, !.rejected = TRUE]
            /\ BodyReturn(BodyFail("Could not read request body."))
         \/ /\ n > Len(bodyReq.chunks)
            /\ bodyRd' = [bodyRd EXCEPT !.reads = @ + 1]
            /\ bodyPc' = "decode"
            /\ UNCHANGED bodyRet
         \/ /\ n <= Len(bodyReq.chunks)
            /\ LET chunk == bodyReq.chunks[n]
                   total == bodyRd.total + chunk
               IN  IF OverCap(total, chunk)
                   THEN /\ bodyRd' = [bodyRd EXCEPT !.reads = @ + 1, !.taken = @ + chunk,
                                                    !.total = total, !.cancelled = TRUE]
                        /\ BodyReturn(BodyFail(TOO_LARGE))
                   ELSE /\ bodyRd' = [bodyRd EXCEPT !.reads = @ + 1, !.taken = @ + chunk,
                                                    !.total = total,
                                                    !.kept = Append(@, chunk)]
                        /\ UNCHANGED <<bodyPc, bodyRet>>
  /\ UNCHANGED bodyReq

\* Lines 354-373: the chunks are merged and decoded, the text parsed, the
\* shape of the value checked.
BodyDecode ==
  /\ bodyPc = "decode"
  /\ BodyReturn(IF ~bodyReq.utf8 THEN BodyFail("Could not read request body.")
                ELSE IF bodyReq.json.kind = "invalid" THEN BodyFail("Invalid JSON payload.")
                ELSE IF bodyReq.json.kind # "object"
                  THEN BodyFail("JSON payload must be an object.")
                ELSE [ok |-> TRUE, error |-> "none", body |-> bodyReq.json])
  /\ UNCHANGED <<bodyReq, bodyRd>>

BodyIdle ==
  /\ bodyReq = [hasBody |-> FALSE]
  /\ bodyPc = "idle"
  /\ bodyRd = Reader0
  /\ bodyRet = BodyFail("none")

\* ------------------------------------------------------------------------
\* Slug policy: validateCustomSlug, generateCode, and the redirect handler
\* ------------------------------------------------------------------------

RESERVED_SLUGS ==
  { <<"a", "p", "i">>, <<"a", "d", "m", "i", "n">>, <<"a", "s", "s", "e", "t", "s">>, <<"s", "t", "a", "t", "i", "c">>, <<"p", "u", "b", "l", "i", "c">>, <<"c", "d", "n">>,
    <<"_", "h", "e", "a", "d", "e", "r", "s">>, <<"_", "r", "e", "d", "i", "r", "e", "c", "t", "s">>, <<"_", "r", "o", "u", "t", "e", "s">>, <<"f", "a", "v", "i", "c", "o", "n">>, <<"r", "o", "b", "o", "t", "s">>,
    <<"s", "i", "t", "e", "m", "a", "p">>, <<"i", "n", "d", "e", "x">>, <<"h", "e", "a", "l", "t", "h">>, <<"p", "i", "n", "g">>, <<"s", "t", "a", "t", "u", "s">>,
    <<"l", "o", "g", "i", "n">>, <<"l", "o", "g", "o", "u", "t">>, <<"s", "i", "g", "n", "u", "p">>, <<"r", "e", "g", "i", "s", "t", "e", "r">>, <<"d", "a", "s", "h", "b", "o", "a", "r", "d">>,
    <<"w", "p", "-", "a", "d", "m", "i", "n">>, <<"w", "p", "-", "l", "o", "g", "i", "n">>, <<".", "e", "n", "v">>, <<".", "g", "i", "t">> }

\* /^[a-z0-9][a-z0-9\-_]{1,31}$/
SLUG_RE(s) ==
  /\ Len(s) \in 2..32
  /\ s[1] \in LowerLetters \cup Digits
  /\ \A i \in 2..Len(s) : s[i] \in LowerLetters \cup Digits \cup {"-", "_"}

\* validateCustomSlug without the reserved-word set.
NothingReserved(slug) == FALSE

\* RESERVED_SLUGS.has(slug)
IsReserved(slug) == slug \in RESERVED_SLUGS

validateCustomSlug(v) ==
  IF v.t # "string" THEN SlugFail("customSlug must be a string.")
  ELSE LET slug == normalizeNFKC(toLowerCase(trim(stripControlChars(v.s))))
       IN  IF Len(slug) < 2 THEN SlugFail("customSlug must be at least 2 characters.")
           ELSE IF Len(slug) > 32
             THEN SlugFail("customSlug must be 32 characters or fewer.")
           ELSE IF ~SLUG_RE(slug)
             THEN SlugFail("customSlug may only contain a-z, 0-9, hyphens, and underscores, and must start with a letter or number.")
           ELSE IF IsReserved(slug)
             THEN SlugFail("The slug is reserved and cannot be used.")
           ELSE IF HasDotDot(slug) \/ includes(slug, "/") \/ includes(slug, "\\")
             THEN SlugFail("customSlug must not contain path separators.")
           ELSE [ok |-> TRUE, slug |-> slug, error |-> "none"]

CHARS == <<"a", "b", "c", "d", "e", "f", "g", "h", "i", "j", "k", "l", "m", "n", "o", "p", "q", "r", "s", "t", "u", "v", "w", "x", "y", "z", "0", "1", "2", "3", "4", "5", "6", "7", "8", "9">>

SHORT_LENGTH == 4

MAX_RETRIES == 8

\* generateCode on the random bytes crypto.getRandomValues wrote:
\* Array.from(array, b => CHARS[b % CHARS.length]).join('')
generateCode(bytes) == [i \in 1..Len(bytes) |-> CHARS[(bytes[i] % Len(CHARS)) + 1]]

API == <<"a", "p", "i">>

\* The redirect handler looking only at the pattern before passing through.
PassThroughNever(slug) == FALSE

\* !slug || slug.startsWith('api') || slug.includes('.')   ([slug].js line 11)
PassThrough(slug) == slug = <<>> \/ startsWith(slug, API) \/ includes(slug, ".")

\* /^[a-z0-9][a-z0-9\-_]{0,63}$/i.test(slug)   ([slug].js line 16)
RedirectPattern(slug) ==
  /\ Len(slug) \in 1..64
  /\ slug[1] \in Letters \cup Digits
  /\ \A i \in 2..Len(slug) : slug[i] \in Letters \cup Digits \cup {"-", "_"}

\* [slug].js lines 8-24: pass through, answer 400, or issue the get.
Redirect ==
  /\ rdPc = "call"
  /\ IF PassThrough(rdSlug)
     THEN rdResp' = [status |-> 0, outcome |-> "next"] /\ rdPc' = "done"
     ELSE IF ~RedirectPattern(rdSlug) \/ Len(rdSlug) > 64
     THEN rdResp' = [status |-> 400, outcome |-> "response"] /\ rdPc' = "done"
     ELSE rdResp' = [status |-> 0, outcome |-> "get", key |-> toLowerCase(rdSlug)]
            /\ rdPc' = "get"
  /\ UNCHANGED rdSlug

\* [slug].js lines 24-59: the get resolves with the record or null, or rejects.
RedirectGetDone ==
  /\ rdPc = "get"
  /\ \/ rdResp' = [status |-> 500, outcome |-> "response", key |-> rdResp.key]
     \/ LET data == KvGet(kv, rdResp.key)
        IN  rdResp' = IF ~data.present
                      THEN [status |-> 404, outcome |-> "response", key |-> rdResp.key]
                      ELSE [status |-> 302, outcome |-> "response", key |-> rdResp.key,
                            location |-> data.rec.url]
  /\ rdPc' = "done"
  /\ UNCHANGED rdSlug

RedirectIdle ==
  /\ rdSlug = <<>>
  /\ rdPc = "idle"
  /\ rdResp = NoResponse

\* The key shorten would store a record under: the success value of
\* validateCustomSlug for a custom slug, the code for generated bytes.
KeyOf(src) ==
  IF src.kind = "custom" THEN validateCustomSlug(src.raw)
  ELSE [ok |-> TRUE, slug |-> generateCode(src.bytes), error |-> "none"]

\* shorten.js lines 54 and 24: the slug is validated or generated.
Assign ==
  /\ slugPc = "call"
  /\ slugKey' = KeyOf(slugSrc)
  /\ slugPc' = "assigned"
  /\ UNCHANGED <<slugSrc, slugLookup, rdSlug, rdPc, rdResp>>

\* lookup.js line 43: the stored key, or the rejected input itself, is looked up.
LookupStored ==
  /\ slugPc = "assigned"
  /\ slugLookup' = validateLookupSlug(IF slugKey.ok THEN JsString(slugKey.slug)
                                      ELSE slugSrc.raw)
  /\ slugPc' = "looked"
  /\ UNCHANGED <<slugSrc, slugKey, rdSlug, rdPc, rdResp>>

\* A client visits /<slug>: [slug].js line 8.
VisitStored ==
  /\ slugPc = "looked"
  /\ rdPc = "idle"
  /\ rdSlug' = IF slugKey.ok THEN slugKey.slug
               ELSE IF slugSrc.raw.t = "string" THEN slugSrc.raw.s ELSE <<>>
  /\ rdPc' = "call"
  /\ slugPc' = "visited"
  /\ UNCHANGED <<slugSrc, slugKey, slugLookup, rdResp>>

SlugIdle ==
  /\ slugSrc = [kind |-> "none"]
  /\ slugPc = "idle"
  /\ slugKey = SlugFail("none")
  /\ slugLookup = SlugFail("none")

\* ------------------------------------------------------------------------
\* POST /api/shorten: onRequestPost and generateUniqueSlug, per request
\* ------------------------------------------------------------------------

\* The requests in flight.
Procs == {1, 2}

JsNull == [t |-> "null"]

\* The url field as validateUrl sees it.
UrlArg(v) == [isString |-> v.t = "string", s |-> IF v.t = "string" THEN v.s ELSE <<>>]

\* value || 'unknown'
OrUnknown(v) == IF v = "" THEN "unknown" ELSE v

\* shorten.js line 23: the length of the code of attempt i.
CodeLength(i) == IF i < 5 THEN SHORT_LENGTH ELSE SHORT_LENGTH + 1

\* What crypto.getRandomValues can write into an array of the given length
\* (the values the model draws; every byte sequence is possible).
RandomBytes(len) ==
  CASE len = 4 -> { <<0, 1, 29, 23>>, <<15, 8, 13, 6>> }
    [] len = 5 -> { <<0, 1, 29, 23, 26>>, <<8, 13, 3, 4, 23>> }
    [] len = 6 -> { <<0, 1, 29, 23, 24, 25>>, <<18, 19, 0, 19, 20, 18>> }

\* env.LINKS.put(slug, JSON.stringify(record)), on both stores.
KvPut(store, key, rec) ==
  [k \in DOMAIN store \cup {key} |->
     IF k = key THEN [present |-> TRUE, rec |-> rec] ELSE store[k]]

ShLocals0 ==
  [url |-> <<>>, custom |-> FALSE, slug |-> <<>>, code |-> <<>>, attempt |-> 0,
   reads |-> 0, free |-> {}]

ShRespond(p, r) ==
  /\ shResp' = [shResp EXCEPT ![p] = r]
  /\ shPc' = [shPc EXCEPT ![p] = "done"]

ShTrace(p, entry) == shLog' = [shLog EXCEPT ![p] = Append(@, entry)]

\* onRequestPost going on with whatever validateCustomSlug returned.
SlugRejectedNever(slugResult) == FALSE

\* if (!slugResult.ok)   (shorten.js line 55)
SlugRejected(slugResult) == ~slugResult.ok

\* shorten.js lines 35-58 and 67, 22-25: onRequestPost after the body was read
\* and its fields went through their validators: the early returns, then the
\* first get, issued for the custom slug or for the first generated code.
ShortenValidated(p, bodyResult, urlResult, slugResult) ==
  LET body == bodyResult.body
      err(status, e) == ShRespond(p, [status |-> status, error |-> e])
  IN  IF ~bodyResult.ok THEN err(400, bodyResult.error) /\ UNCHANGED <<shLoc, shLog>>
      ELSE IF body.url.t \in {"undefined", "null"}
        THEN err(400, "A url field is required.") /\ UNCHANGED <<shLoc, shLog>>
      ELSE IF ~urlResult.ok
        THEN err(422, urlResult.error) /\ UNCHANGED <<shLoc, shLog>>
      ELSE IF body.customSlug.t # "undefined"
        THEN IF SlugRejected(slugResult)
             THEN err(422, slugResult.error) /\ UNCHANGED <<shLoc, shLog>>
             ELSE /\ shLoc' = [shLoc EXCEPT ![p].url = urlResult.url,
                                            ![p].custom = TRUE,
                                            ![p].code = slugResult.slug]
                  /\ ShTrace(p, [op |-> "get", key |-> slugResult.slug])
                  /\ shPc' = [shPc EXCEPT ![p] = "custom_get"]
                  /\ UNCHANGED shResp
      ELSE \E bytes \in RandomBytes(CodeLength(0)) :
             /\ shLoc' = [shLoc EXCEPT ![p].url = urlResult.url,
                                       ![p].code = generateCode(bytes),
                                       ![p].reads = 1]
             /\ ShTrace(p, [op |-> "get", key |-> generateCode(bytes)])
             /\ shPc' = [shPc EXCEPT ![p] = "gen_get"]
             /\ UNCHANGED shResp

\* shorten.js lines 34, 45 and 54: the body is read, then the url and the
\* customSlug fields are validated.
ShortenStart(p) ==
  /\ shPc[p] = "start"
  /\ LET bodyResult == readJsonBody(shReq[p].envelope)
     IN  ShortenValidated(p, bodyResult, validateUrl(UrlArg(bodyResult.body.url)),
                          validateCustomSlug(bodyResult.body.customSlug))
  /\ UNCHANGED <<shReq, kv, kv2>>

\* An unhandled rejection of a KV call in onRequestPost.
ShException == [status |-> 500, error |-> "exception"]

\* shorten.js lines 58-65: the get for the custom slug resolves.
ShortenCustomGetDone(p) ==
  /\ shPc[p] = "custom_get"
  /\ \/ ShRespond(p, ShException) /\ UNCHANGED shLoc
     \/ IF KvGet(kv, shLoc[p].code).present
        THEN ShRespond(p, [status |-> 409, error |-> "The slug is already taken.",
                           slug |-> shLoc[p].code])
               /\ UNCHANGED shLoc
        ELSE /\ shLoc' = [shLoc EXCEPT ![p].slug = shLoc[p].code,
                                       ![p].free = @ \cup {shLoc[p].code}]
             /\ shPc' = [shPc EXCEPT ![p] = "put"]
             /\ UNCHANGED shResp
  /\ UNCHANGED <<shReq, shLog, kv, kv2>>

\* generateUniqueSlug, lines 22-28: the get of attempt i resolves; the code is
\* returned if nothing is stored under it; else the next attempt generates a
\* code and issues its get, or, after MAX_RETRIES attempts, a code of
\* SHORT_LENGTH + 2 is returned.
ShortenGenGetDone(p) ==
  /\ shPc[p] = "gen_get"
  /\ \/ ShRespond(p, ShException) /\ UNCHANGED <<shLoc, shLog>>
     \/ /\ ~KvGet(kv, shLoc[p].code).present
        /\ shLoc' = [shLoc EXCEPT ![p].slug = shLoc[p].code,
                                  ![p].free = @ \cup {shLoc[p].code}]
        /\ shPc' = [shPc EXCEPT ![p] = "put"]
        /\ UNCHANGED <<shResp, shLog>>
     \/ /\ KvGet(kv, shLoc[p].code).present
        /\ LET i == shLoc[p].attempt + 1
           IN  IF ~(i < MAX_RETRIES)
               THEN \E bytes \in RandomBytes(SHORT_LENGTH + 2) :
                      /\ shLoc' = [shLoc EXCEPT ![p].attempt = i,
                                                ![p].slug = generateCode(bytes)]
                      /\ shPc' = [shPc EXCEPT ![p] = "put"]
                      /\ UNCHANGED <<shResp, shLog>>
               ELSE \E bytes \in RandomBytes(CodeLength(i)) :
                      /\ shLoc' = [shLoc EXCEPT ![p].attempt = i,
                                                ![p].code = generateCode(bytes),
                                                ![p].reads = @ + 1]
                      /\ ShTrace(p, [op |-> "get", key |-> generateCode(bytes)])
                      /\ UNCHANGED <<shPc, shResp>>
  /\ UNCHANGED <<shReq, kv, kv2>>

\* shorten.js lines 70-84: the record is built and put, and the request answered.
ShortenPut(p) ==
  /\ shPc[p] = "put"
  /\ LET record == [url |-> shLoc[p].url, slug |-> shLoc[p].slug,
                    ip |-> OrUnknown(shReq[p].ip),
                    userAgent |-> OrUnknown(shReq[p].userAgent),
                    country |-> "unknown", createdAt |-> "now"]
     IN  /\ ShTrace(p, [op |-> "put", key |-> shLoc[p].slug, url |-> shLoc[p].url])
         /\ \/ ShRespond(p, ShException) /\ UNCHANGED <<kv, kv2>>
            \/ /\ kv' = KvPut(kv, shLoc[p].slug, record)
               /\ kv2' = KvPut(kv2, shLoc[p].slug, record)
               /\ ShRespond(p, [status |-> 200, slug |-> shLoc[p].slug,
                                url |-> shLoc[p].url])
  /\ UNCHANGED <<shReq, shLoc>>

Shorten ==
  \E p \in Procs :
    \/ ShortenStart(p)
    \/ ShortenCustomGetDone(p)
    \/ ShortenGenGetDone(p)
    \/ ShortenPut(p)

NoRequest == [envelope |-> [contentType |-> <<>>], ip |-> "", userAgent |-> ""]

ShortenIdle ==
  /\ shReq = [p \in Procs |-> NoRequest]
  /\ shPc = [p \in Procs |-> "idle"]
  /\ shLoc = [p \in Procs |-> ShLocals0]
  /\ shResp = [p \in Procs |-> NoResponse]
  /\ shLog = [p \in Procs |-> <<>>]

\* ------------------------------------------------------------------------
\* SpecHost: isBlockedHostname applied to IPv4 and IPv6 literals
\* ------------------------------------------------------------------------

\* Octet values on both sides of every boundary of the blocked ranges.
FirstOctets ==
  {0, 1, 9, 10, 11, 99, 100, 101, 126, 127, 128, 168, 169, 170, 171, 172, 173,
   191, 192, 193, 197, 198, 199, 202, 203, 204, 239, 240, 241, 254, 255}

SecondOctets ==
  {0, 1, 15, 16, 19, 20, 29, 30, 31, 32, 50, 51, 52, 63, 64, 69, 70, 99, 100,
   119, 120, 127, 128, 167, 168, 169, 253, 254, 255}

ThirdOctets == {0, 99, 100, 101, 112, 113, 114, 255}

FourthOctets == {0, 1, 254, 255}

\* The dotted-quad literal of an address, octets in decimal.
FormatIPv4(a, b, c, d) ==
  NumStr(a, 10) \o <<".">> \o NumStr(b, 10) \o <<".">> \o NumStr(c, 10)
    \o <<".">> \o NumStr(d, 10)

\* First groups on both sides of every boundary of the blocked IPv6 ranges.
FirstGroups ==
  {1, 252, 254, 255, 8193, 64511, 64512, 64767, 64768, 65023, 65024, 65151,
   65152, 65168, 65215, 65216, 65279, 65280, 65282, 65535}

\* The last group of an IPv6 input; the groups between are zero.
LastGroups == {0, 1, 2}

\* The literal of the address whose first group is g (0 for none), whose last
\* group is l and whose other groups are zero, in the compressed form the URL
\* parser serialises; upper selects the upper-case spelling of the hex digits.
FormatIPv6(g, l, upper) ==
  LET low ==
        IF g = 0 THEN (IF l = 0 THEN <<":",":">> ELSE <<":",":">> \o NumStr(l, 16))
        ELSE IF l = 0 THEN NumStr(g, 16) \o <<":",":">>
        ELSE NumStr(g, 16) \o <<":",":">> \o NumStr(l, 16)
  IN  IF upper THEN toUpperCase(low) ELSE low

HostInit ==
  \/ \E a \in FirstOctets, b \in SecondOctets, c \in ThirdOctets, d \in FourthOctets :
       /\ hostname = FormatIPv4(a, b, c, d)
       /\ hostAddr = [v |-> 4, a |-> a, b |-> b, c |-> c, d |-> d]
  \/ \E g \in FirstGroups \cup {0}, l \in LastGroups, upper \in BOOLEAN :
       /\ hostname = FormatIPv6(g, l, upper)
       /\ hostAddr = [v |-> 6, g |-> g, l |-> l]

HostIdle ==
  /\ hostname = <<>>
  /\ hostAddr = [v |-> 0]
  /\ hostPc = "idle"
  /\ verdict = FALSE

UrlIdle ==
  /\ raw = [isString |-> TRUE, s |-> <<>>]
  /\ urlParts = [family |-> "idle"]
  /\ urlPc = "idle"
  /\ result = Fail("none")
  /\ result2 = Fail("none")

Classify ==
  /\ hostPc = "call"
  /\ verdict' = isBlockedHostname(hostname)
  /\ hostPc' = "done"
  /\ UNCHANGED <<hostname, hostAddr>>

InitHost ==
  HostInit /\ hostPc = "call" /\ verdict = FALSE /\ UrlIdle /\ AuthIdle /\ ApiIdle
    /\ BodyIdle /\ SlugIdle /\ RedirectIdle /\ ShortenIdle

NextHost == Classify /\ UNCHANGED <<urlVars, authVars, apiVars, bodyVars, slugVars, shVars>>

SpecHost == InitHost /\ [][NextHost]_vars

\* C2: a dotted-quad IPv4 literal is blocked exactly when its address lies in
\* 0.0.0.0/8, 127.0.0.0/8, 10.0.0.0/8, 172.16.0.0/12, 192.168.0.0/16,
\* 169.254.0.0/16, 100.64.0.0/10, 198.51.100.0/24, 203.0.113.0/24,
\* 240.0.0.0/4 or is 255.255.255.255.
InBlockedV4Range(x) ==
  \/ x.a = 0
  \/ x.a = 127
  \/ x.a = 10
  \/ x.a = 172 /\ x.b \in 16..31
  \/ x.a = 192 /\ x.b = 168
  \/ x.a = 169 /\ x.b = 254
  \/ x.a = 100 /\ x.b \in 64..127
  \/ x.a = 198 /\ x.b = 51 /\ x.c = 100
  \/ x.a = 203 /\ x.b = 0 /\ x.c = 113
  \/ x.a \in 240..255

C2_BlockedExactlyInRanges ==
  (hostAddr.v = 4 /\ hostPc = "done") => (verdict = InBlockedV4Range(hostAddr))

\* C3: a bracket-stripped IPv6 literal is blocked exactly when it is ::1, ::,
\* or lies in fc00::/7, fe80::/10 or ff00::/8.
InBlockedV6Range(x) ==
  \/ x.g = 0 /\ x.l \in {0, 1}
  \/ x.g \in 64512..65023      \* fc00 .. fdff
  \/ x.g \in 65152..65215      \* fe80 .. febf
  \/ x.g \in 65280..65535      \* ff00 .. ffff

C3_BlockedExactlyInV6Ranges ==
  (hostAddr.v = 6 /\ hostPc = "done") => (verdict = InBlockedV6Range(hostAddr))

\* ------------------------------------------------------------------------
\* SpecUrl: validateUrl applied to an input, then to its own output
\* ------------------------------------------------------------------------

\* The hosts the SSRF property names (an IPv6 literal is bracketed in a URL).
ReservedHosts ==
  { <<"1", "2", "7", ".", "0", ".", "0", ".", "1">>,
    <<"1", "0", ".", "0", ".", "0", ".", "5">>,
    <<"1", "9", "2", ".", "1", "6", "8", ".", "1", ".", "1">>,
    <<"1", "6", "9", ".", "2", "5", "4", ".", "1", "6", "9", ".", "2", "5", "4">>,
    <<"[", ":", ":", "1", "]">>,
    <<"m", "e", "t", "a", "d", "a", "t", "a", ".", "g", "o", "o", "g", "l", "e", ".", "i", "n", "t", "e", "r", "n", "a", "l">> }

OtherHosts ==
  { <<"E", "x", "a", "m", "p", "l", "e", ".", "C", "O", "M">>,
    <<"e", "x", "a", "m", "p", "l", "e", ".", "c", "o", "m">>,
    <<"9", "3", ".", "1", "8", "4", ".", "2", "1", "6", ".", "3", "4">>,
    <<"2", "4", "1", ".", "0", ".", "0", ".", "1">>,
    <<"i", "n", "t", "e", "r", "n", "a", "l">>,
    <<"1", "2", "7", ".", "1">>,
    <<"l", "o", "c", "a", "l", "h", "o", "s", "t">>,
    <<"d", "b", ".", "c", "o", "r", "p">>,
    <<"[", "2", "0", "0", "1", ":", "d", "b", "8", ":", ":", "1", "]">>,
    <<"1", "7", "2", ".", "3", "2", ".", "0", ".", "1">> }

InputSchemes == { <<"h", "t", "t", "p">>, <<"h", "t", "t", "p", "s">>, <<"H", "T", "T", "P", "S">>, <<"f", "t", "p">>, <<>> }

InputUserinfo == { <<>>, <<"u", "s", "e", "r", ":", "p", "a", "s", "s", "@">> }

InputPorts == { <<>>, <<"8", "0">>, <<"4", "4", "3">>, <<"8", "0", "8", "0">> }

InputPaths == { <<>>, <<"/", "p", "a", "t", "h">>, <<"/", "a", " ", "b">>, <<"?", "q", "=", "1">> }

\* Leading and trailing spaces of a short input.
MaxPad == 1

\* Zero-width units in front of a long input, and ligatures in its path.
MaxZeroWidth == 2

MaxLigatures == 1

\* How far below and above MAX_URL_LENGTH the sanitised length of a long input goes.
LengthSlack == 2

Repeat(c, n) == [i \in 1..n |-> c]

\* scheme "://" userinfo host [":" port] path, between pad spaces; an input
\* without a scheme has no "://" either.
ShortInput(p) ==
  Repeat(" ", p.lead)
    \o (IF p.scheme = <<>> THEN <<>> ELSE p.scheme \o <<":", "/", "/">>)
    \o p.userinfo \o p.host
    \o (IF p.port = <<>> THEN <<>> ELSE <<":">> \o p.port)
    \o p.path \o Repeat(" ", p.trail)

LongOrigin == <<"h", "t", "t", "p", "s", ":", "/", "/", "e", "x", "a", "m", "p", "l", "e", ".", "c", "o", "m", "/">>

\* zw zero-width units, then https://example.com/ and a path of lig ligatures,
\* "a b" when space, and as many "a" as bring the sanitised length to len.
LongInput(p) ==
  LET fixed == Len(LongOrigin) + 2 * p.lig + (IF p.space THEN 3 ELSE 0)
  IN  Repeat("ZWSP", p.zw) \o LongOrigin \o Repeat("LIGFI", p.lig)
        \o (IF p.space THEN <<"a", " ", "b">> ELSE <<>>)
        \o Repeat("a", p.len - fixed)

UrlInit ==
  \/ \E lead \in 0..MaxPad, trail \in 0..MaxPad, scheme \in InputSchemes,
        userinfo \in InputUserinfo, host \in ReservedHosts \cup OtherHosts,
        port \in InputPorts, path \in InputPaths :
       /\ urlParts = [family |-> "short", lead |-> lead, trail |-> trail,
                      scheme |-> scheme, userinfo |-> userinfo, host |-> host,
                      port |-> port, path |-> path]
       /\ raw = [isString |-> TRUE, s |-> ShortInput(urlParts)]
  \/ \E zw \in 0..MaxZeroWidth, lig \in 0..MaxLigatures, space \in BOOLEAN,
        len \in (MAX_URL_LENGTH - LengthSlack)..(MAX_URL_LENGTH + LengthSlack) :
       /\ urlParts = [family |-> "long", zw |-> zw, lig |-> lig, space |-> space,
                      len |-> len]
       /\ raw = [isString |-> TRUE, s |-> LongInput(urlParts)]
  \/ /\ urlParts = [family |-> "nonstring"]
     /\ raw = [isString |-> FALSE, s |-> <<>>]

\* const urlResult = validateUrl(url)
Validate ==
  /\ urlPc = "call"
  /\ result' = validateUrl(raw)
  /\ urlPc' = "done"
  /\ UNCHANGED <<raw, urlParts, result2>>

\* The accepted string fed back into validateUrl.
Revalidate ==
  /\ urlPc = "done"
  /\ result.ok
  /\ result2' = validateUrl([isString |-> TRUE, s |-> result.url])
  /\ urlPc' = "redone"
  /\ UNCHANGED <<raw, urlParts, result>>

InitUrl ==
  /\ UrlInit
  /\ urlPc = "call"
  /\ result = Fail("none")
  /\ result2 = Fail("none")
  /\ HostIdle
  /\ AuthIdle
  /\ ApiIdle
  /\ BodyIdle
  /\ SlugIdle
  /\ RedirectIdle
  /\ ShortenIdle

NextUrl == (Validate \/ Revalidate) /\ UNCHANGED <<hostVars, authVars, apiVars, bodyVars, slugVars, shVars>>

SpecUrl == InitUrl /\ [][NextUrl]_vars

BlockedReason == "URL resolves to a reserved or private address."

\* C1: for the http and the https scheme, a URL whose host is 127.0.0.1,
\* 10.0.0.5, 192.168.1.1, 169.254.169.254, [::1] or metadata.google.internal
\* fails with the blocked-address reason and never succeeds.
C1_ReservedHostsBlocked ==
  ( /\ urlPc = "done"
    /\ urlParts.family = "short"
    /\ urlParts.host \in ReservedHosts
    /\ toLowerCase(urlParts.scheme) \in {HTTP, HTTPS}
    /\ urlParts.userinfo = <<>> )
  => (~result.ok /\ result.error = BlockedReason)

\* C4 (as stated): no raw input string longer than 2048 units succeeds.
C4_RawLongerThanLimitFails ==
  (urlPc = "done" /\ raw.isString /\ Len(raw.s) > 2048) => ~result.ok

\* C4 (amended): a string whose sanitised, trimmed, NFKC-normalised form is
\* longer than 2048 units fails, with the length reason.
C4_SanitisedLongerThanLimitFails ==
  (urlPc = "done" /\ raw.isString /\ Len(Sanitise(raw.s)) > 2048)
  => (~result.ok /\ result.error = "URL must be 2048 characters or fewer.")

\* A string whose normalised form is over the limit although the raw string is
\* not (a ligature expands under NFKC) has been rejected.
C4_Witness ==
  /\ urlPc = "done"
  /\ urlParts.family = "long"
  /\ urlParts.len > 2048
  /\ Len(Sanitise(raw.s)) = urlParts.len
  /\ Len(raw.s) <= 2048
  /\ ~result.ok

\* C5: a string validateUrl accepts, fed back into validateUrl, is accepted
\* again with the identical canonical URL.
C5_Idempotent ==
  urlPc = "redone" => (result2.ok /\ result2.url = result.url)

\* ------------------------------------------------------------------------
\* SpecAuth: checkAdminAuth on a configured key and an Authorization header
\* ------------------------------------------------------------------------

\* How many units longer than MIN_KEY_LENGTH a configured key can be.
MaxExtraKey == 1

\* The configured secrets: unset, empty, one unit short, and usable ones (of
\* one repeated unit, of two alternating units, with a two-byte unit).
InputKeys ==
  { [set |-> FALSE, s |-> <<>>],
    [set |-> TRUE, s |-> <<>>],
    [set |-> TRUE, s |-> Repeat("a", MIN_KEY_LENGTH - 1)],
    [set |-> TRUE, s |-> Repeat("a", MIN_KEY_LENGTH - 2) \o <<"EACUTE">>],
    [set |-> TRUE, s |-> Repeat("a", MIN_KEY_LENGTH - 1) \o <<"EACUTE">>],
    [set |-> TRUE, s |-> [i \in 1..MIN_KEY_LENGTH |-> IF i % 2 = 1 THEN "a" ELSE "k"]] }
  \cup { [set |-> TRUE, s |-> Repeat("a", MIN_KEY_LENGTH + x)] : x \in 0..MaxExtraKey }

\* The string the presented tokens are variations of.
Reference(key) == IF key.s = <<>> THEN Repeat("a", MIN_KEY_LENGTH) ELSE key.s

\* Presented tokens: the reference itself, the reference with one unit changed
\* (every position), its proper prefixes, its repetition, and longer strings.
InputTokens(key) ==
  LET ref == Reference(key)
  IN  {ref, ref \o ref, ref \o <<"a">>, ref \o <<"b">>, <<" ">> \o ref}
        \cup {[ref EXCEPT ![p] = "b"] : p \in 1..Len(ref)}
        \cup {Sub(ref, 1, n) : n \in 1..(Len(ref) - 1)}

\* The scheme words a header is written with; "" is a header that is only the token.
InputSchemeWords == {"Bearer", "bearer", "Basic", ""}

SchemeWord(w) ==
  CASE w = "Bearer" -> <<"B", "e", "a", "r", "e", "r">>
    [] w = "bearer" -> <<"b", "e", "a", "r", "e", "r">>
    [] w = "Basic" -> <<"B", "a", "s", "i", "c">>
    [] w = "" -> <<>>

\* scheme word, one space, token, between lead and trail pad spaces.
HeaderValue(w, token, lead, trail) ==
  Repeat(" ", lead) \o SchemeWord(w) \o (IF w = "" THEN <<>> ELSE <<" ">>) \o token
    \o Repeat(" ", trail)

AuthInputs ==
  \E key \in InputKeys :
    /\ adminKey = key
    /\ \/ /\ authHeader = [present |-> FALSE, s |-> <<>>]
          /\ authParts = [scheme |-> "none", token |-> <<>>]
       \/ \E w \in InputSchemeWords, token \in InputTokens(key) \cup {<<>>},
             lead \in 0..MaxPad, trail \in 0..MaxPad :
            /\ authHeader = [present |-> TRUE, s |-> HeaderValue(w, token, lead, trail)]
            /\ authParts = [scheme |-> w, token |-> token]

InitAuth ==
  AuthInputs /\ AuthStart("call") /\ HostIdle /\ UrlIdle /\ ApiIdle /\ BodyIdle
    /\ SlugIdle /\ RedirectIdle /\ ShortenIdle

NextAuth ==
  (CheckAdminAuth \/ StepUnequal \/ StepEqual \/ CompareReturn)
    /\ UNCHANGED <<hostVars, urlVars, apiVars, bodyVars, slugVars, shVars>>

SpecAuth == InitAuth /\ [][NextAuth]_vars

\* C6: the comparator is invoked only when ADMIN_KEY is present with at least
\* 16 characters and the header uses the Bearer scheme; in every other case
\* checkAdminAuth returns false without any comparison; it returns true only
\* if the presented token equals the configured secret.
C6_ComparatorOnlyWhenConfiguredAndBearer ==
  LET configured == adminKey.set /\ Len(adminKey.s) >= 16
      bearer == authHeader.present /\ authParts.scheme = "Bearer"
  IN  /\ cmpStats.calls > 0 => (configured /\ bearer)
      /\ cmpStats.calls <= 1
      /\ (authPc = "ret" /\ ~(configured /\ bearer))
           => (~authResult /\ cmpStats.calls = 0 /\ cmpStats.iters = 0)
      /\ (authPc = "ret" /\ authResult) => authParts.token = adminKey.s

\* A request with a usable key and a Bearer header has reached the comparator
\* and been accepted.
C6_Witness ==
  /\ authPc = "ret"
  /\ authResult
  /\ cmpStats.calls = 1
  /\ authParts.scheme = "Bearer"
  /\ Len(adminKey.s) >= 16

\* C7: timingSafeEqual(a, a) is true, and timingSafeEqual(a, b) is false
\* whenever a # b, whether the lengths are equal or not.
C7_EqualExactlyWhenSame ==
  (authPc = "ret" /\ cmpStats.calls = 1)
  => (authResult = (cmpArgs[1] = cmpArgs[2]))

\* A token that is the secret written twice (the wrapped reads of the
\* unequal-length loop see no differing unit) has been compared and refused.
C7_Witness ==
  /\ authPc = "ret"
  /\ cmpStats.calls = 1
  /\ cmpArgs[1] = cmpArgs[2] \o cmpArgs[2]
  /\ diff = 0
  /\ ~authResult

\* C8: for a presented token of n encoded units the comparator runs exactly n
\* loop iterations before it returns, whatever the secret, the position of the
\* first mismatch and whether the lengths match, and it reads the reference
\* value only at in-bounds indices.
C8_IterationsDependOnTokenLengthOnly ==
  /\ ~cmpStats.outOfBounds
  /\ (cmpStats.calls = 1 /\ authPc \in {"unequal", "equal"}) => cmpStats.iters = idx
  /\ (cmpStats.calls = 1 /\ authPc = "ret")
       => cmpStats.iters = Len(encode(authParts.token))

\* A token of the secret's length whose first unit differs has been compared
\* over its whole length.
C8_Witness ==
  /\ authPc = "ret"
  /\ cmpStats.calls = 1
  /\ Len(cmpArgs[1]) = Len(cmpArgs[2])
  /\ cmpArgs[1][1] # cmpArgs[2][1]
  /\ cmpStats.iters = Len(ab)
  /\ cmpStats.iters >= 16

\* ------------------------------------------------------------------------
\* SpecApi: one request to POST /api/lookup, GET /api/admin or DELETE /api/admin
\* ------------------------------------------------------------------------

\* The configured secret of the deployment.
ApiKey == [i \in 1..MIN_KEY_LENGTH |-> IF i % 2 = 1 THEN "k" ELSE "a"]

\* ADMIN_KEY unset, or set to the secret; the Authorization header absent, or
\* carrying the secret, the secret with its last unit changed, a prefix of the
\* secret, or the secret under the Basic scheme.
ApiAuthInputs ==
  /\ adminKey \in {[set |-> FALSE, s |-> <<>>], [set |-> TRUE, s |-> ApiKey]}
  /\ \/ /\ authHeader = [present |-> FALSE, s |-> <<>>]
        /\ authParts = [scheme |-> "none", token |-> <<>>]
     \/ \E w \in {"Bearer", "Basic"},
           token \in {ApiKey, [ApiKey EXCEPT ![MIN_KEY_LENGTH] = "b"],
                      Sub(ApiKey, 1, MIN_KEY_LENGTH - 1)} :
          /\ authHeader = [present |-> TRUE, s |-> HeaderValue(w, token, 0, 0)]
          /\ authParts = [scheme |-> w, token |-> token]

\* The private fields a stored record can carry ("" is a field without value).
PrivateFields ==
  { [ip |-> "203.0.113.7", userAgent |-> "curl/8.5.0"],
    [ip |-> "198.51.100.9", userAgent |-> "Mozilla/5.0"],
    [ip |-> "", userAgent |-> ""] }

\* The record shorten.js stores under a slug.
StoredRecord(slug, private) ==
  [present |-> TRUE,
   rec |-> [url |-> <<"https://example.com/", slug>>, slug |-> slug,
            ip |-> private.ip, userAgent |-> private.userAgent,
            country |-> IF slug = KvKeyOrder[1] THEN "NZ" ELSE "",
            createdAt |-> "2024-01-01T00:00:00.000Z"]]

\* Two stores that hold the same slugs and differ at most in ip and userAgent.
StoreInputs ==
  \E privates \in [KvKeys -> PrivateFields \X PrivateFields], stored \in SUBSET KvKeys :
    /\ kv = [k \in KvKeys |-> IF k \in stored THEN StoredRecord(k, privates[k][1])
                                              ELSE NoRecord]
    /\ kv2 = [k \in KvKeys |-> IF k \in stored THEN StoredRecord(k, privates[k][2])
                                               ELSE NoRecord]
    /\ kv0 = kv

JsonObject(slug, slugs, purgeAll) ==
  [kind |-> "object", slug |-> slug, slugs |-> slugs, purgeAll |-> purgeAll]

\* A slug that is not stored, one needing trimming and lower-casing, one with a
\* unit outside the pattern, and one longer than 64 units.
InputSlugs ==
  { JsString(KvKeyOrder[1]), JsString(KvKeyOrder[2]), JsString(<<"n", "o", "p", "e">>),
    JsString(<<" ", "A", "B", "3", "X", " ">>), JsString(<<"a", "/", "b">>), JsString(<<>>),
    JsString(Repeat("a", 65)), JsNumber }

InputBatches ==
  { JsArray(<<>>),
    JsArray(<<JsString(KvKeyOrder[1]), JsString(KvKeyOrder[2])>>),
    JsArray(<<JsString(KvKeyOrder[2]), JsString(<<"n", "o", "p", "e">>), JsString(KvKeyOrder[1])>>),
    JsArray(<<JsString(KvKeyOrder[1]), JsNumber>>),
    JsArray([i \in 1..BATCH_LIMIT |-> JsString(KvKeyOrder[1])]
              \o <<JsString(KvKeyOrder[2])>>),
    JsString(KvKeyOrder[1]) }

InputBodies ==
  { JsonObject(s, JsUndefined, JsUndefined) : s \in InputSlugs }
    \cup { JsonObject(JsUndefined, b, JsUndefined) : b \in InputBatches }
    \cup { JsonObject(JsString(KvKeyOrder[1]), JsArray(<<JsString(KvKeyOrder[2])>>), JsUndefined),
           JsonObject(JsUndefined, JsUndefined, JsUndefined),
           JsonObject(JsUndefined, JsUndefined, JsBoolean(TRUE)),
           JsonObject(JsString(KvKeyOrder[1]), JsUndefined, JsBoolean(TRUE)),
           JsonObject(JsString(KvKeyOrder[1]), JsUndefined, JsBoolean(FALSE)),
           JsonObject(JsUndefined, JsUndefined, JsString(<<"t", "r", "u", "e">>)),
           [kind |-> "invalid"], [kind |-> "array"], [kind |-> "null"] }

Envelope(contentType, contentLength, chunks, readable, json) ==
  [contentType |-> contentType, contentLength |-> contentLength, chunks |-> chunks,
   readable |-> readable, json |-> json]

\* Well-formed requests with every body, and requests failing each guard of
\* readJsonBody around a body that would otherwise purge the store.
InputRequests ==
  { Envelope(APPLICATION_JSON, 40, <<40>>, TRUE, json) : json \in InputBodies }
    \cup { Envelope(ct, 0, <<MAX_BODY_BYTES>>, TRUE,
                    JsonObject(JsString(KvKeyOrder[1]), JsUndefined, JsBoolean(TRUE))) :
             ct \in {<<"a", "p", "p", "l", "i", "c", "a", "t", "i", "o", "n", "/", "j", "s", "o", "n", ";", " ", "c", "h", "a", "r", "s", "e", "t", "=", "u", "t", "f", "-", "8">>, <<" ", "A", "p", "p", "l", "i", "c", "a", "t", "i", "o", "n", "/", "J", "S", "O", "N", " ">>,
                     <<"t", "e", "x", "t", "/", "p", "l", "a", "i", "n">>, <<>>} }
    \cup { Envelope(APPLICATION_JSON, e[1], e[2], e[3],
                    JsonObject(JsString(KvKeyOrder[1]), JsUndefined, JsBoolean(TRUE))) :
             e \in { <<MAX_BODY_BYTES + 1, <<40>>, TRUE>>,
                     <<0, <<8000, 193>>, TRUE>>,
                     <<-1, <<8000, 192>>, TRUE>>,
                     <<0, <<>>, FALSE>> } }

ApiInputs ==
  /\ route \in {"lookup", "admin_get", "admin_delete"}
  /\ req \in InputRequests
  /\ StoreInputs
  /\ apiPc = "start"
  /\ loc = Locals0
  /\ trace = Trace0
  /\ resp = NoResponse
  /\ resp2 = NoResponse

\* The requests to POST /api/shorten and the stores they meet.
ShortenBody(url, customSlug) == [kind |-> "object", url |-> url, customSlug |-> customSlug]

UrlA == <<"h", "t", "t", "p", "s", ":", "/", "/", "e", "x", "a", "m", "p", "l", "e", ".", "c", "o", "m", "/", "a">>

UrlB == <<"h", "t", "t", "p", ":", "/", "/", "e", "x", "a", "m", "p", "l", "e", ".", "o", "r", "g", "/", "b">>

\* Bodies: generated and custom slugs with two URLs, a taken slug, a reserved
\* one, a slug of the wrong type, and URLs that are missing, null, of the wrong
\* type, of another scheme and of a reserved address.
InputShortenBodies ==
  { ShortenBody(JsString(UrlA), JsUndefined),
    ShortenBody(JsString(UrlA), JsString(<<"m", "y", "-", "l", "i", "n", "k", "_", "1">>)),
    ShortenBody(JsString(UrlB), JsString(<<" ", "M", "y", "-", "L", "i", "n", "k", "_", "1">>)),
    ShortenBody(JsString(UrlB), JsString(<<"t", "a", "k", "e", "n">>)),
    ShortenBody(JsString(UrlA), JsString(<<"a", "d", "m", "i", "n">>)),
    ShortenBody(JsString(UrlA), JsNumber),
    ShortenBody(JsUndefined, JsString(<<"m", "y", "-", "l", "i", "n", "k", "_", "1">>)),
    ShortenBody(JsNull, JsUndefined),
    ShortenBody(JsNumber, JsUndefined),
    ShortenBody(JsString(<<"f", "t", "p", ":", "/", "/", "e", "x", "a", "m", "p", "l", "e", ".", "c", "o", "m", "/", "a">>), JsString(<<"m", "y", "-", "l", "i", "n", "k", "_", "1">>)),
    ShortenBody(JsString(<<"h", "t", "t", "p", ":", "/", "/", "1", "2", "7", ".", "0", ".", "0", ".", "1", "/">>), JsUndefined) }

InputShortenRequests ==
  { [envelope |-> Envelope(APPLICATION_JSON, 40, <<40>>, TRUE, b),
     ip |-> "203.0.113.7", userAgent |-> "curl/8.5.0"] : b \in InputShortenBodies }
    \cup { [envelope |-> Envelope(<<"t", "e", "x", "t", "/", "p", "l", "a", "i", "n">>, 40, <<40>>, TRUE,
                                  ShortenBody(JsString(UrlA), JsString(<<"m", "y", "-", "l", "i", "n", "k", "_", "1">>))),
            ip |-> "", userAgent |-> ""] }

\* env.LINKS: empty, or holding a custom slug and a code of each length.
ShortenStores ==
  { [k \in {} |-> NoRecord],
    [k \in { <<"t", "a", "k", "e", "n">>, <<"a", "b", "3", "x">>, <<"a", "b", "3", "x", "0">>, <<"a", "b", "3", "x", "y", "z">> } |->
       StoredRecord(k, [ip |-> "198.51.100.9", userAgent |-> "Mozilla/5.0"])] }

ShortenInputs(active) ==
  /\ shReq \in [Procs -> InputShortenRequests \cup {NoRequest}]
  /\ \A p \in Procs : shReq[p] = NoRequest <=> p \notin active
  /\ shPc = [p \in Procs |-> IF p \in active THEN "start" ELSE "idle"]
  /\ shLoc = [p \in Procs |-> ShLocals0]
  /\ shResp = [p \in Procs |-> NoResponse]
  /\ shLog = [p \in Procs |-> <<>>]
  /\ kv \in ShortenStores
  /\ kv2 = kv
  /\ kv0 = kv

\* A request to POST /api/shorten: the handler does not look at ADMIN_KEY or
\* at the Authorization header.
ShortenRouteInputs ==
  /\ route = "shorten"
  /\ req = [contentType |-> <<>>]
  /\ apiPc = "idle"
  /\ loc = Locals0
  /\ trace = Trace0
  /\ resp = NoResponse
  /\ resp2 = NoResponse
  /\ ShortenInputs({1})
  /\ adminKey = [set |-> FALSE, s |-> <<>>]
  /\ authHeader = [present |-> FALSE, s |-> <<>>]
  /\ authParts = [scheme |-> "none", token |-> <<>>]

InitApi ==
  /\ \/ ApiInputs /\ ApiAuthInputs /\ ShortenIdle
     \/ ShortenRouteInputs
  /\ AuthStart("idle") /\ HostIdle /\ UrlIdle /\ BodyIdle /\ SlugIdle /\ RedirectIdle

NextApi ==
  \/ (CheckAdminAuth \/ StepUnequal \/ StepEqual \/ CompareReturn)
       /\ UNCHANGED <<hostVars, urlVars, apiVars, bodyVars, slugVars, shVars>>
  \/ (LookupReadBody \/ LookupDispatch \/ LookupGetDone \/ LookupBatchGetDone
        \/ LookupBatchRespond \/ AdminStart \/ AdminGetGate \/ AdminList
        \/ AdminGetDone \/ AdminPageDone \/ AdminDeleteGate \/ PurgeList
        \/ PurgeDelete \/ DeleteOne)
       /\ UNCHANGED <<hostVars, urlVars, bodyVars, slugVars, shVars>>
  \/ Shorten /\ UNCHANGED <<hostVars, urlVars, authVars, handlerVars, bodyVars, slugVars>>

SpecApi == InitApi /\ [][NextApi]_vars

AdminRoutes == {"admin_get", "admin_delete"}

Authenticated == authPc = "ret" /\ authResult

\* C9: for GET and DELETE /api/admin, a request whose checkAdminAuth is false
\* is answered 401 and, in that request, no KV list, get or delete is issued,
\* the body is not read and the store is untouched; a KV delete is issued, and
\* a record leaves the store, only in a request whose checkAdminAuth returned
\* true.
C9_NoUnauthenticatedAdminSurface ==
  /\ (route \in AdminRoutes /\ ~Authenticated) =>
       /\ trace.kvLog = <<>>
       /\ trace.bodyCalls = 0
       /\ kv = kv0
       /\ apiPc \in {"start", "auth", "done"}
       /\ apiPc = "done" => resp.status = 401
  /\ ((\E k \in DOMAIN kv0 : kv0[k].present /\ ~KvGet(kv, k).present)
        \/ (\E i \in 1..Len(trace.kvLog) : trace.kvLog[i].op = "delete")
        \/ (\E p \in Procs : \E i \in 1..Len(shLog[p]) : shLog[p][i].op = "delete"))
       => Authenticated

\* A DELETE asking for a purge of a non-empty store, with a well-formed body
\* and a Bearer token the comparator rejected, answered 401.
C9_Witness ==
  /\ route = "admin_delete"
  /\ apiPc = "done"
  /\ readJsonBody(req).ok
  /\ readJsonBody(req).body.purgeAll = JsBoolean(TRUE)
  /\ StoredKeys(kv0) # <<>>
  /\ cmpStats.calls = 1
  /\ ~authResult
  /\ resp.status = 401
  /\ kv = kv0

\* The records a lookup response carries.
RecordsOf(r) ==
  IF "record" \in DOMAIN r THEN {r.record}
  ELSE IF "results" \in DOMAIN r THEN {r.results[i] : i \in 1..Len(r.results)}
  ELSE {}

\* C10: every record of a lookup response (single or batch) carries ip and
\* userAgent, with the stored values, exactly when checkAdminAuth returned true
\* for the request; the response to a request that did not pass checkAdminAuth
\* is the same for two stores that differ only in the ip and userAgent of
\* their records (the gets of a batch completing in the same order).
C10_PrivateFieldsExactlyForAdmin ==
  (route = "lookup" /\ apiPc = "done") =>
    /\ \A r \in RecordsOf(resp) :
         /\ "ip" \in DOMAIN r <=> Authenticated
         /\ "userAgent" \in DOMAIN r <=> Authenticated
         /\ Authenticated =>
              /\ r.ip = OrNull(KvGet(kv, r.slug).rec.ip)
              /\ r.userAgent = OrNull(KvGet(kv, r.slug).rec.userAgent)
    /\ ~Authenticated => resp = resp2

\* An unauthenticated batch lookup answered 200 with two records whose stored
\* ip and userAgent differ between the two stores.
C10_Witness ==
  /\ route = "lookup"
  /\ apiPc = "done"
  /\ ~Authenticated
  /\ resp.status = 200
  /\ "results" \in DOMAIN resp
  /\ Len(resp.results) = 2
  /\ \A r \in RecordsOf(resp) :
       /\ KvGet(kv, r.slug).rec.ip # KvGet(kv2, r.slug).rec.ip
       /\ KvGet(kv, r.slug).rec.userAgent # KvGet(kv2, r.slug).rec.userAgent
  /\ resp = resp2

\* ------------------------------------------------------------------------
\* SpecBody: one call of readJsonBody
\* ------------------------------------------------------------------------

MaxChunks == 3

Absent == [present |-> FALSE, s |-> <<>>]

Present(s) == [present |-> TRUE, s |-> s]

InputContentTypes ==
  { Present(APPLICATION_JSON), Present(<<"a", "p", "p", "l", "i", "c", "a", "t", "i", "o", "n", "/", "j", "s", "o", "n", ";", " ", "c", "h", "a", "r", "s", "e", "t", "=", "u", "t", "f", "-", "8">>),
    Present(<<"t", "e", "x", "t", "/", "p", "l", "a", "i", "n">>), Absent }

\* Content-Length: absent, over the cap, at the cap, below it (understating a
\* larger body), not a number, a number with a tail, negative.
InputContentLengths ==
  { Absent, Present(<<"9", "0", "0", "0">>), Present(<<"8", "1", "9", "3">>), Present(<<"8", "1", "9", "2">>), Present(<<"1", "0", "0">>),
    Present(<<"a", "b", "c">>), Present(<<" ", "9", "0", "0", "0">>), Present(<<"1", "2", "k", "b">>), Present(<<"-", "1">>) }

ChunkSizes == {0, 100, 4096, 8092, 8192, 8193}

InputChunks == UNION { [1..n -> ChunkSizes] : n \in 0..MaxChunks }

RECURSIVE SumSeq(_)
SumSeq(s) == IF s = <<>> THEN 0 ELSE Head(s) + SumSeq(Tail(s))

BodyInputs ==
  \E ct \in InputContentTypes, cl \in InputContentLengths, chunks \in InputChunks,
     k \in {"object", "invalid", "array"} :
    \/ bodyReq = [contentType |-> ct, contentLength |-> cl, hasBody |-> TRUE,
                  chunks |-> chunks, utf8 |-> TRUE,
                  json |-> IF k = "object"
                           THEN JsonObject(JsString(KvKeyOrder[1]), JsUndefined, JsUndefined)
                           ELSE [kind |-> k]]
    \/ /\ k = "object"
       /\ bodyReq = [contentType |-> ct, contentLength |-> cl, hasBody |-> TRUE,
                     chunks |-> chunks, utf8 |-> FALSE, json |-> [kind |-> "invalid"]]
    \/ /\ k = "object"
       /\ chunks = <<>>
       /\ bodyReq = [contentType |-> ct, contentLength |-> cl, hasBody |-> FALSE,
                     chunks |-> <<>>, utf8 |-> TRUE, json |-> [kind |-> "invalid"]]

InitBody ==
  /\ BodyInputs
  /\ bodyPc = "call"
  /\ bodyRd = Reader0
  /\ bodyRet = BodyFail("none")
  /\ HostIdle /\ UrlIdle /\ AuthIdle /\ ApiIdle /\ SlugIdle /\ RedirectIdle /\ ShortenIdle

NextBody ==
  (BodyStart \/ BodyRead \/ BodyDecode)
    /\ UNCHANGED <<hostVars, urlVars, authVars, apiVars, slugVars, shVars>>

SpecBody == InitBody /\ [][NextBody]_vars

\* The Content-Length header is a decimal number above the cap.
DeclaredOverCap ==
  /\ bodyReq.contentLength.present
  /\ AllDigits(TrimStart(bodyReq.contentLength.s))
  /\ ParseInt(TrimStart(bodyReq.contentLength.s)) > MAX_BODY_BYTES

NothingRead == ~bodyRd.obtained /\ bodyRd.reads = 0 /\ bodyRd.taken = 0

JsonContentType == ContentType(HeaderOr(bodyReq.contentType, <<>>)) = APPLICATION_JSON

\* C11 as stated: whenever the declared Content-Length exceeds 8192, the call
\* fails with the too-large error and obtains no reader and issues no read.
C11_DeclaredOverCapFailsTooLarge ==
  DeclaredOverCap =>
    /\ NothingRead
    /\ bodyPc = "done" => (~bodyRet.ok /\ bodyRet.error = TOO_LARGE)

\* C11: whenever the declared Content-Length exceeds 8192, the call fails and
\* obtains no reader and issues no read; the failure is the too-large error
\* when the Content-Type is application/json, the Content-Type error otherwise.
C11_DeclaredOverCapFailsUnread ==
  DeclaredOverCap =>
    /\ NothingRead
    /\ bodyPc \in {"call", "done"}
    /\ bodyPc = "done" =>
         /\ ~bodyRet.ok
         /\ bodyRet.error = IF JsonContentType THEN TOO_LARGE
                            ELSE "Content-Type must be application/json."

\* A JSON request declaring 9000 bytes, with a body on the stream, has failed.
C11_Witness ==
  /\ DeclaredOverCap
  /\ JsonContentType
  /\ bodyReq.hasBody
  /\ bodyReq.chunks # <<>>
  /\ bodyPc = "done"
  /\ bodyRet.error = TOO_LARGE
  /\ NothingRead

\* The stream delivers more than the cap in total.
StreamOverCap == bodyReq.hasBody /\ SumSeq(bodyReq.chunks) > MAX_BODY_BYTES

\* C12: with no Content-Length declared and a stream delivering more than
\* 8192 bytes in total, the call fails with the too-large error having taken at
\* most 8192 bytes from the stream, for every split of the body into chunks.
C12_FailsHavingTakenAtMostCap ==
  (~bodyReq.contentLength.present /\ JsonContentType /\ StreamOverCap
     /\ bodyPc = "done" /\ ~bodyRd.rejected)
    => /\ ~bodyRet.ok
       /\ bodyRet.error = TOO_LARGE
       /\ bodyRd.taken <= MAX_BODY_BYTES

\* The index of the first chunk that takes the running total over the cap.
FirstOver(chunks) ==
  CHOOSE i \in 1..Len(chunks) :
    /\ RunningTotals(chunks, 0)[i] > MAX_BODY_BYTES
    /\ \A j \in 1..(i - 1) : RunningTotals(chunks, 0)[j] <= MAX_BODY_BYTES

\* The Content-Length header is absent, not a number, or a number within the cap.
DeclaredWithinCap == ~ExceedsCap(parseInt(HeaderOr(bodyReq.contentLength, <<"0">>)))

AbortedAtFirstOver ==
  /\ ~bodyRet.ok
  /\ bodyRet.error = TOO_LARGE
  /\ bodyRd.cancelled
  /\ bodyRd.reads = FirstOver(bodyReq.chunks)
  /\ Len(bodyRd.kept) = FirstOver(bodyReq.chunks) - 1
  /\ bodyRd.total = RunningTotals(bodyReq.chunks, 0)[FirstOver(bodyReq.chunks)]

\* C13 as stated: for every Content-Length that is absent, not a number or at
\* most 8192, and every chunk sequence delivered whose cumulative size exceeds
\* 8192, the read is cancelled at the first chunk taking the total over the cap
\* and the result is the too-large failure; success implies at most 8192 bytes
\* were streamed.
C13_OverCapStreamAborted ==
  /\ (DeclaredWithinCap /\ StreamOverCap /\ bodyPc = "done" /\ ~bodyRd.rejected)
       => AbortedAtFirstOver
  /\ (bodyPc = "done" /\ bodyRet.ok) => bodyRd.taken <= MAX_BODY_BYTES

\* C13: for a request whose Content-Type is application/json, every
\* Content-Length that is absent, not a number or at most 8192, and every chunk
\* sequence delivered whose cumulative size exceeds 8192, the read is cancelled
\* at the first chunk taking the total over the cap and the result is the
\* too-large failure; with another Content-Type the call fails before any
\* read; a success implies that the stream delivered at most 8192 bytes in all.
C13_OverCapStreamAbortedForJson ==
  /\ (DeclaredWithinCap /\ StreamOverCap /\ bodyPc = "done" /\ ~bodyRd.rejected)
       => IF JsonContentType THEN AbortedAtFirstOver
          ELSE ~bodyRet.ok /\ NothingRead
  /\ (bodyPc = "done" /\ bodyRet.ok) =>
       /\ bodyRd.taken <= MAX_BODY_BYTES
       /\ bodyRd.taken = SumSeq(bodyReq.chunks)

\* A JSON request declaring 100 bytes whose stream delivers 4096, 4096 and
\* then the chunk crossing the cap: cancelled at the third read.
C13_Witness ==
  /\ JsonContentType
  /\ bodyReq.contentLength = Present(<<"1", "0", "0">>)
  /\ Len(bodyReq.chunks) = 3
  /\ StreamOverCap
  /\ FirstOver(bodyReq.chunks) = 3
  /\ bodyPc = "done"
  /\ ~bodyRd.rejected
  /\ AbortedAtFirstOver
  /\ bodyRd.reads = 3

\* ------------------------------------------------------------------------
\* SpecSlug: a slug is assigned (validated or generated), looked up, visited
\* ------------------------------------------------------------------------

\* Custom slugs as typed: accepted ones, reserved words, too short and too
\* long, with units outside the pattern, with path separators, starting with
\* "api", and with units that NFKC rewrites.
InputCustomSlugs ==
  { <<"m", "y", "-", "l", "i", "n", "k", "_", "1">>, <<"a", "b">>, <<"a">>, <<"a", "d", "m", "i", "n">>, <<"p", "i", "n", "g">>, <<"a", "p", "i">>, <<"w", "p", "-", "a", "d", "m", "i", "n">>,
    <<".", ".", "/", "e", "t", "c">>, <<"a", ".", ".", "b">>, <<"a", "/", "b">>, <<"a", "\\", "b">>, <<"-", "a", "b">>, <<"_", "a", "b">>, <<".", "e", "n", "v">>,
    <<"a", "p", "i", "d", "o", "c", "s">>, <<"a", "p", "i", "-", "v", "2">>, <<"a", " ", "b">>, <<>>,
    <<"FWA", "b">>, <<"LIGFI">>, <<"a", "d", "ZWSP", "m", "i", "n">>,
    Repeat("a", 31), Repeat("a", 32), Repeat("a", 33),
    Repeat("a", 31) \o <<"LIGFI">> }

MaxSlugPad == 1

\* The same slugs between pad spaces, as typed or in upper case.
InputRawSlugs ==
  { JsString(Repeat(" ", lead) \o (IF upper THEN toUpperCase(s) ELSE s)
               \o Repeat(" ", trail)) :
      s \in InputCustomSlugs, lead \in 0..MaxSlugPad, trail \in 0..MaxSlugPad,
      upper \in BOOLEAN }
    \cup {JsNumber}

\* The codes the random bytes are chosen to spell, by length.
CodeWords ==
  { <<"p", "i", "n", "g">>, <<"a", "p", "i", "7">>, <<"a", "b", "3", "x">>, <<"y", "z", "9", "q">>, <<"0", "0", "0", "0">>,
    <<"i", "n", "d", "e", "x">>, <<"l", "o", "g", "i", "n">>, <<"a", "p", "i", "a", "b">>, <<"a", "b", "3", "x", "0">>,
    <<"s", "t", "a", "t", "u", "s">>, <<"l", "o", "g", "o", "u", "t">>, <<"a", "p", "i", "1", "2", "3">>, <<"a", "b", "3", "x", "y", "z">> }

IndexIn(c, s) == CHOOSE i \in 1..Len(s) : s[i] = c

\* Bytes b with CHARS[b % 36] spelling the word: the index plus a multiple of 36.
BytesSpelling(word, k) == [i \in 1..Len(word) |-> (IndexIn(word[i], CHARS) - 1) + 36 * k]

InputRandomBytes == { BytesSpelling(w, k) : w \in CodeWords, k \in {0, 1, 6} }

SlugInputs ==
  \/ \E typed \in InputRawSlugs : slugSrc = [kind |-> "custom", raw |-> typed]
  \/ \E bytes \in InputRandomBytes :
       slugSrc = [kind |-> "generated", bytes |-> bytes,
                  raw |-> JsString(generateCode(bytes))]

\* env.LINKS holding a record under the key the slug is assigned, or nothing.
SlugStoreInputs ==
  /\ \/ kv = [k \in (IF KeyOf(slugSrc).ok THEN {KeyOf(slugSrc).slug} ELSE {}) |->
                StoredRecord(k, [ip |-> "203.0.113.7", userAgent |-> "curl/8.5.0"])]
     \/ kv = [k \in {} |-> NoRecord]
  /\ kv2 = kv
  /\ kv0 = kv

InitSlug ==
  /\ SlugInputs
  /\ SlugStoreInputs
  /\ slugPc = "call"
  /\ slugKey = SlugFail("none")
  /\ slugLookup = SlugFail("none")
  /\ RedirectIdle
  /\ HandlerIdle
  /\ HostIdle /\ UrlIdle /\ AuthIdle /\ BodyIdle /\ ShortenIdle

NextSlug ==
  (Assign \/ LookupStored \/ VisitStored
     \/ ((Redirect \/ RedirectGetDone) /\ UNCHANGED <<slugSrc, slugPc, slugKey, slugLookup>>))
    /\ UNCHANGED <<hostVars, urlVars, authVars, apiVars, bodyVars, shVars>>

SpecSlug == InitSlug /\ [][NextSlug]_vars

\* The input after stripControlChars, trim, toLowerCase and NFKC.
NormalisedSlug(v) == normalizeNFKC(toLowerCase(trim(stripControlChars(v.s))))

SlugHead == LowerLetters \cup Digits

SlugTail == SlugHead \cup {"-", "_"}

StrictShape(s) ==
  /\ Len(s) >= 2
  /\ Len(s) <= 32
  /\ s[1] \in SlugHead
  /\ \A i \in 2..Len(s) : s[i] \in SlugTail
  /\ s \notin RESERVED_SLUGS

\* C14: validateCustomSlug succeeds exactly when the input is a string whose
\* sanitized, trimmed, lowercased, NFKC-normalized form has 2 to 32 characters,
\* starts with a-z or 0-9, continues with a-z, 0-9, hyphen or underscore and is
\* not a reserved word; the success value is that normalized form and holds no
\* '..', '/' or '\'; 'my-link_1' and 'ab' are accepted, 'admin', 'a' and
\* '../etc' rejected.
C14_CustomSlugAcceptedExactlyWhenStrict ==
  (slugPc # "call" /\ slugSrc.kind = "custom") =>
    /\ slugKey.ok <=> (slugSrc.raw.t = "string" /\ StrictShape(NormalisedSlug(slugSrc.raw)))
    /\ slugKey.ok =>
         /\ slugKey.slug = NormalisedSlug(slugSrc.raw)
         /\ ~HasDotDot(slugKey.slug)
         /\ \A i \in 1..Len(slugKey.slug) : slugKey.slug[i] \notin {"/", "\\", "."}
    /\ slugSrc.raw \in {JsString(<<"m", "y", "-", "l", "i", "n", "k", "_", "1">>), JsString(<<"a", "b">>)} => slugKey.ok
    /\ slugSrc.raw \in {JsString(<<"a", "d", "m", "i", "n">>), JsString(<<"a">>), JsString(<<".", ".", "/", "e", "t", "c">>)}
         => ~slugKey.ok

\* ' MY-LINK_1 ' has been accepted as 'my-link_1'.
C14_Witness ==
  /\ slugPc # "call"
  /\ slugSrc.kind = "custom"
  /\ slugSrc.raw = JsString(<<" ", "M", "Y", "-", "L", "I", "N", "K", "_", "1", " ">>)
  /\ slugKey.ok
  /\ slugKey.slug = <<"m", "y", "-", "l", "i", "n", "k", "_", "1">>

LookedUp == slugPc \in {"looked", "visited"}

\* C15: validateLookupSlug succeeds on, and returns unchanged, every success
\* value of validateCustomSlug and every code of generateCode of length 4, 5
\* or 6; it succeeds on reserved words of the strict shape; it fails on every string holding '..'.
C15_LookupAcceptsEveryStoredKey ==
  LookedUp =>
    /\ slugKey.ok => (slugLookup.ok /\ slugLookup.slug = slugKey.slug)
    /\ (slugSrc.kind = "generated" /\ Len(slugSrc.bytes) \in 4..6) => slugKey.ok
    /\ (~slugKey.ok /\ slugSrc.raw.t = "string" /\ slugSrc.raw.s \in RESERVED_SLUGS
          /\ SLUG_RE(slugSrc.raw.s))
         => (slugLookup.ok /\ slugLookup.slug = slugSrc.raw.s)
    /\ (~slugKey.ok /\ slugSrc.raw.t = "string" /\ HasDotDot(slugSrc.raw.s))
         => ~slugLookup.ok

\* The reserved word 'admin', rejected as a custom slug, has been looked up.
C15_Witness ==
  /\ LookedUp
  /\ slugSrc.kind = "custom"
  /\ slugSrc.raw = JsString(<<"a", "d", "m", "i", "n">>)
  /\ ~slugKey.ok
  /\ slugLookup.ok
  /\ slugLookup.slug = <<"a", "d", "m", "i", "n">>

\* C20: for every slug shorten can store a record under, the redirect handler
\* given that slug neither passes through to context.next() nor answers 400;
\* it issues the get with that key, and answers 302 to the stored URL when the
\* get returns the record.
C20_StoredSlugRedirects ==
  (slugKey.ok /\ slugPc = "visited" /\ rdPc \in {"get", "done"}) =>
    /\ rdResp.outcome # "next"
    /\ rdResp.status # 400
    /\ rdResp.key = slugKey.slug
    /\ (rdPc = "done" /\ KvGet(kv, slugKey.slug).present /\ rdResp.status # 500)
         => (rdResp.status = 302 /\ rdResp.location = KvGet(kv, slugKey.slug).rec.url)

\* ------------------------------------------------------------------------
\* SpecShorten: two concurrent requests to POST /api/shorten
\* ------------------------------------------------------------------------

InitShorten ==
  /\ ShortenInputs(Procs)
  /\ HandlerIdle
  /\ HostIdle /\ UrlIdle /\ AuthIdle /\ BodyIdle /\ SlugIdle /\ RedirectIdle

NextShorten ==
  Shorten /\ UNCHANGED <<hostVars, urlVars, authVars, handlerVars, bodyVars, slugVars>>

SpecShorten == InitShorten /\ [][NextShorten]_vars

\* The keys request p has put.
PutKeys(p) == {shLog[p][i].key : i \in {j \in 1..Len(shLog[p]) : shLog[p][j].op = "put"}}

\* C16: every key put into the store by POST /api/shorten, user-chosen or
\* generated, has 2 to 32 characters, matches the strict pattern and is not a
\* reserved word.
C16_EveryPutKeyIsStrict ==
  \A p \in Procs : \A k \in PutKeys(p) : StrictShape(k)

\* C17: in a request without customSlug the key put is one for which a get of
\* that same request returned no record, whatever the outcome of the attempts,
\* and generateUniqueSlug issues at most 8 gets.
C17_GeneratedKeyWasSeenFree ==
  \A p \in Procs :
    ~shLoc[p].custom =>
      /\ shLoc[p].reads <= MAX_RETRIES
      /\ \A k \in PutKeys(p) : k \in shLoc[p].free

\* The slug request p asked for, when it asked for a valid one.
CustomKey(p) == validateCustomSlug(readJsonBody(shReq[p].envelope).body.customSlug).slug

\* C18: a request whose customSlug is already a key of the store answers 409
\* and leaves the record unchanged; of two concurrent requests with the same
\* customSlug and different URLs at most one answers 200, and the stored
\* record is the one of the request that answered 200.
C18_TakenSlugNeverOverwritten ==
  /\ \A p \in Procs :
       (shLoc[p].custom /\ shPc[p] = "done" /\ shResp[p].status # 500
          /\ KvGet(kv0, shLoc[p].code).present)
         => /\ shResp[p].status = 409
            /\ KvGet(kv, shLoc[p].code) = KvGet(kv0, shLoc[p].code)
  /\ \A p \in Procs, q \in Procs :
       (p # q /\ shLoc[p].custom /\ shLoc[q].custom /\ shLoc[p].code = shLoc[q].code
          /\ shLoc[p].url # shLoc[q].url /\ shPc[p] = "done" /\ shPc[q] = "done"
          /\ shResp[p].status = 200)
         => /\ shResp[q].status # 200
            /\ KvGet(kv, shLoc[p].code).rec.url = shLoc[p].url

\* The KV calls of the kinds the claim names, in the lookup and admin handlers.
DataOps == {i \in 1..Len(trace.kvLog) : trace.kvLog[i].op \in {"get", "put", "delete"}}

LookupInputValidated ==
  LET b == readJsonBody(req)
      sv == validateLookupSlug(b.body.slug)
      elems == b.body.slugs.a
  IN  /\ b.ok
      /\ IF b.body.slug.t # "undefined"
         THEN sv.ok /\ trace.kvLog = GetOps(<<sv.slug>>)
         ELSE /\ b.body.slugs.t = "array"
              /\ Len(elems) >= 1
              /\ Len(elems) <= BATCH_LIMIT
              /\ \A i \in 1..Len(elems) : validateLookupSlug(elems[i]).ok
              /\ trace.kvLog = GetOps([i \in 1..Len(elems) |-> validateLookupSlug(elems[i]).slug])

DeleteInputValidated ==
  LET b == readJsonBody(req)
      sv == validateLookupSlug(b.body.slug)
  IN  /\ b.ok
      /\ \/ b.body.purgeAll = JsBoolean(TRUE)
         \/ /\ b.body.slug.t # "undefined"
            /\ sv.ok
            /\ \A i \in DataOps : trace.kvLog[i] = [op |-> "delete", key |-> sv.slug]

ShortenInputValidated(p) ==
  LET b == readJsonBody(shReq[p].envelope)
      urlResult == validateUrl(UrlArg(b.body.url))
      slugResult == validateCustomSlug(b.body.customSlug)
  IN  /\ b.ok
      /\ b.body.url.t = "string"
      /\ urlResult.ok
      /\ \A i \in 1..Len(shLog[p]) :
           shLog[p][i].op = "put" => shLog[p][i].url = urlResult.url
      /\ b.body.customSlug.t # "undefined" =>
           /\ slugResult.ok
           /\ \A i \in 1..Len(shLog[p]) : shLog[p][i].key = slugResult.slug

====
